---- MODULE Spec2Model ----
(***************************************************************************)
(* Model of the kazuba-hooks core: the KnowledgeEngine result cache and    *)
(* scorer (knowledge.rs), the WorkingMemory store and the TDLearner        *)
(* (learning.rs).                                                          *)
(*                                                                         *)
(* Numbers.  f32/f64 values are kept exact as scaled integers or reduced   *)
(* fractions: a signal score s is the integer s * SignalOne, a priority p  *)
(* is p * PriorityOne, a combined score is score * ScoreOne.  Strings are  *)
(* tuples of one-character strings, so that lowercasing, substring search  *)
(* and splitting are computed and not assumed.                             *)
(*                                                                         *)
(* Evaluation.  A value used several times in one expression is bound once *)
(* by ranging over a singleton set, as in  \E x \in {e} : ...  or          *)
(* CHOOSE r \in {f(x) : x \in {e}} : TRUE, which denotes f(e).             *)
(***************************************************************************)
EXTENDS Integers, Sequences, FiniteSets, TLC

VARIABLES
    \* ---- KnowledgeEngine (knowledge.rs) ----
    patterns,     \* KnowledgeEngine.patterns, fixed at construction
    cache,        \* the HashMap behind KnowledgeEngine.cache: key -> CacheEntry
    lock,         \* holder of the cache Mutex, 0 when free
    poisoned,     \* the Mutex is poisoned: lock() returns Err
    now,          \* the monotonic clock read by Instant::now / elapsed
    pc,           \* per caller: the position inside its current call
    arg,          \* per caller: the (query, top_k) of its current call
    results,      \* per caller: the local `results` of match_patterns
    last,         \* the most recent return of match_patterns (history)
    \* ---- WorkingMemory (learning.rs) ----
    entries,      \* WorkingMemory.entries
    max_capacity, \* WorkingMemory.max_capacity
    wm_ms,        \* creation_time.elapsed().as_millis()
    wm_status,    \* "ok", or "panicked" once a call has panicked
    wm_ret,       \* the value returned by the last WorkingMemory call
    wm_adds,      \* history: the importances added so far while only add was called
    \* ---- TDLearner (learning.rs) ----
    q_table,             \* TDLearner.q_table
    eligibility_traces,  \* TDLearner.eligibility_traces
    hyper,               \* alpha, gamma, lambda after clamping
    td_ret,              \* the value returned by the last TDLearner call
    td_steps,            \* number of TDLearner calls so far
    td_run,              \* history: the run of identical update calls made so far
    td_age,              \* history: per pair, the update calls since its last update
    \* ---- ClusterEngine (learning.rs) ----
    min_points,          \* ClusterEngine.min_points
    epsilon,             \* ClusterEngine.epsilon after clamping
    embeddings,          \* the batch passed to the current detect_clusters call
    ce_pc,               \* position inside detect_clusters
    ce_i,                \* the `i` of `for i in 0..n`
    visited,             \* the local `visited`
    cluster_assignments, \* the local `cluster_assignments`
    clusters,            \* the local `clusters`, returned at the end
    seeds,               \* the local `seeds` of the cluster being expanded
    cluster_points,      \* the local `cluster_points` of that cluster
    ce_prev,             \* history: what the previous call returned for this batch
    \* ---- vector operations (learning.rs) ----
    vec_args,            \* the (a, b) of the last cosine_similarity call
    vec_ret              \* the value returned by that call

keVars == <<patterns, cache, lock, poisoned, now, pc, arg, results, last>>
wmVars == <<entries, max_capacity, wm_ms, wm_status, wm_ret, wm_adds>>
tdVars == <<q_table, eligibility_traces, hyper, td_ret, td_steps, td_run, td_age>>
ceVars == <<min_points, epsilon, embeddings, ce_pc, ce_i, visited,
            cluster_assignments, clusters, seeds, cluster_points, ce_prev>>
vecVars == <<vec_args, vec_ret>>
vars == <<keVars, wmVars, tdVars, ceVars, vecVars>>

(***************************************************************************)
(* Generic helpers                                                         *)
(***************************************************************************)
Min2(a, b) == IF a <= b THEN a ELSE b

Range(s) == {s[i] : i \in 1..Len(s)}

\* Iterator::take(n) on a sequence
Take(s, n) == SubSeq(s, 1, Min2(n, Len(s)))

\* the sequence s without its i-th element (Vec::remove)
RemoveAt(s, i) == [j \in 1..(Len(s) - 1) |-> IF j < i THEN s[j] ELSE s[j + 1]]

\* all orderings of the elements of the finite set S
Perms(S) == {p \in [1..Cardinality(S) -> S] : \A x \in S : \E i \in 1..Cardinality(S) : p[i] = x}

(***************************************************************************)
(* Strings (knowledge.rs uses str::to_lowercase and str::contains)         *)
(***************************************************************************)
\* char::to_lowercase on the alphabet of the model
LowerChar(c) ==
    CASE c = "A" -> "a"
      [] c = "B" -> "b"
      [] c = "C" -> "c"
      [] c = "E" -> "e"
      [] c = "S" -> "s"
      [] c = "T" -> "t"
      [] OTHER -> c

ToLowercase(s) == [i \in 1..Len(s) |-> LowerChar(s[i])]

\* each string of a list lowercased
ToLowercase_All(ss) == [i \in 1..Len(ss) |-> ToLowercase(ss[i])]

\* hay has needle at position pos (1-based)
HasAt(hay, pos, needle) ==
    /\ pos + Len(needle) - 1 <= Len(hay)
    /\ \A j \in 1..Len(needle) : hay[pos + j - 1] = needle[j]

\* str::contains
Contains(hay, needle) == \E pos \in 1..(Len(hay) + 1) : HasAt(hay, pos, needle)

\* Option<String>::None for KnowledgeQuery.file_path
NoPath == <<"<none>">>

(***************************************************************************)
(* Fixed-point units                                                       *)
(***************************************************************************)
\* 1.0 of a signal score (divisible by every set size of the model)
SignalOne == 60
\* 1.0 of a priority
PriorityOne == 10
\* the weights of the combined score, in hundredths
WKeyword == 40
WErrorCode == 25
WTag == 20
WPath == 15
\* 1.0 of a combined score
ScoreOne == (WKeyword + WErrorCode + WTag + WPath) * SignalOne * PriorityOne

(***************************************************************************)
(* KnowledgeEngine::new: the keyword index                                 *)
(***************************************************************************)
\* the lowercased keywords of all patterns, in pattern and keyword order
RECURSIVE FlatKeywords(_, _)
FlatKeywords(pats, i) ==
    IF i > Len(pats) THEN <<>>
    ELSE ToLowercase_All(pats[i].keywords) \o FlatKeywords(pats, i + 1)

\* all_keywords: the first occurrence of each keyword is kept
RECURSIVE Dedup(_, _)
Dedup(seq, acc) ==
    IF seq = <<>> THEN acc
    ELSE Dedup(Tail(seq), IF Head(seq) \in Range(acc) THEN acc ELSE Append(acc, Head(seq)))

AllKeywords(pats) == Dedup(FlatKeywords(pats, 1), <<>>)

\* how often pattern index idx is listed in keyword_to_pattern_ids[kw]
PatternIdCount(pats, kw, idx) ==
    Cardinality({j \in 1..Len(pats[idx].keywords) : ToLowercase(pats[idx].keywords[j]) = kw})

(***************************************************************************)
(* AhoCorasick::find_iter with MatchKind::LeftmostFirst: the leftmost      *)
(* match is reported, among the keywords matching at that position the one *)
(* listed first, and the search resumes after the end of the match.        *)
(***************************************************************************)
\* index in kws of the keyword reported at pos, 0 when none matches there
MatchAt(text, pos, kws) ==
    LET hit == {m \in 1..Len(kws) : HasAt(text, pos, kws[m])}
    IN  IF hit = {} THEN 0 ELSE CHOOSE m \in hit : \A n \in hit : m <= n

RECURSIVE FindIter(_, _, _)
FindIter(text, pos, kws) ==
    IF pos > Len(text) THEN <<>>
    ELSE LET m == MatchAt(text, pos, kws)
         IN  IF m = 0 THEN FindIter(text, pos + 1, kws)
             ELSE <<m>> \o FindIter(text, pos + Len(kws[m]), kws)

RECURSIVE SumSeq(_)
SumSeq(s) == IF s = <<>> THEN 0 ELSE Head(s) + SumSeq(Tail(s))

\* pattern_scores[idx].0 after the scan: the raw match counter of pattern idx
KeywordMatches(pats, q, idx) ==
    LET kws  == AllKeywords(pats)
        mats == IF kws = <<>> THEN <<>> ELSE FindIter(ToLowercase(q.text), 1, kws)
    IN  SumSeq([i \in 1..Len(mats) |-> PatternIdCount(pats, kws[mats[i]], idx)])

(***************************************************************************)
(* match_patterns: multi-signal scoring (knowledge.rs 210-292)             *)
(***************************************************************************)
LowerSet(ss) == {ToLowercase(x) : x \in Range(ss)}

\* mutant: the cap at 1.0 is missing
KeywordScore_NoCap(p, keyword_matches) ==
    LET pattern_keywords == LowerSet(p.keywords)
    IN  IF pattern_keywords # {}
        THEN (keyword_matches * SignalOne) \div Cardinality(pattern_keywords)
        ELSE 0

\* signals.keyword_score
KeywordScore(p, keyword_matches) ==
    LET pattern_keywords == LowerSet(p.keywords)
    IN  IF pattern_keywords # {}
        THEN Min2((keyword_matches * SignalOne) \div Cardinality(pattern_keywords), SignalOne)
        ELSE 0

\* signals.error_code_score
ErrorCodeScore(q, p) ==
    LET query_error_codes == LowerSet(q.error_codes)
        pattern_errors    == LowerSet(p.error_codes)
    IN  IF query_error_codes # {} /\ p.error_codes # <<>>
        THEN (Cardinality(query_error_codes \cap pattern_errors) * SignalOne)
                 \* .len().max(1)
                 \div (IF Cardinality(query_error_codes) >= 1
                       THEN Cardinality(query_error_codes) ELSE 1)
        ELSE 0

\* signals.tag_score (Jaccard)
TagScore(q, p) ==
    LET query_tags   == LowerSet(q.tags)
        pattern_tags == LowerSet(p.tags)
    IN  IF query_tags # {} /\ p.tags # <<>>
        THEN IF Cardinality(query_tags \cup pattern_tags) > 0
             THEN (Cardinality(query_tags \cap pattern_tags) * SignalOne)
                      \div Cardinality(query_tags \cup pattern_tags)
             ELSE 0
        ELSE 0

\* signals.path_score
PathScore(q, p) ==
    IF /\ q.file_path # NoPath
       /\ \E i \in 1..Len(p.path_patterns) :
              Contains(ToLowercase(q.file_path), ToLowercase(p.path_patterns[i]))
    THEN SignalOne
    ELSE 0

SignalScoresOf(q, p, keyword_matches) ==
    [keyword_score    |-> KeywordScore(p, keyword_matches),
     error_code_score |-> ErrorCodeScore(q, p),
     tag_score        |-> TagScore(q, p),
     path_score       |-> PathScore(q, p)]

\* the weights of the tag and path signals exchanged
CombinedScore_SwappedWeights(signals, p) ==
    (signals.keyword_score * WKeyword
        + signals.error_code_score * WErrorCode
        + signals.tag_score * WPath
        + signals.path_score * WTag)
        * p.priority

\* combined_score, in units of 1/ScoreOne
CombinedScore(signals, p) ==
    (signals.keyword_score * WKeyword
        + signals.error_code_score * WErrorCode
        + signals.tag_score * WTag
        + signals.path_score * WPath)
        * p.priority

\* the PatternMatch built for pattern index idx
PatternMatchOf(pats, q, idx) ==
    LET km  == KeywordMatches(pats, q, idx)
        sig == SignalScoresOf(q, pats[idx], km)
    IN  [pattern_id      |-> pats[idx].id,
         score           |-> CombinedScore(sig, pats[idx]),
         signals         |-> sig,
         keyword_matches |-> km]

\* the entries of pattern_scores mapped to PatternMatch and filtered by score > 0
ScoredMatches(pats, q) ==
    {PatternMatchOf(pats, q, idx) :
        idx \in {i \in 1..Len(pats) :
                    /\ KeywordMatches(pats, q, i) > 0
                    /\ PatternMatchOf(pats, q, i).score > 0}}

\* results after sort_by: pattern_scores is a HashMap, so the order in which the
\* matches reach the stable sort is arbitrary, and so is the order of equal scores
SortedResults(pats, q) ==
    {r \in Perms(ScoredMatches(pats, q)) :
        \A i, j \in 1..Len(r) : i < j => r[i].score >= r[j].score}

\* calculate_score(query, pattern): each keyword the lowercased text contains
\* counts once and the count is divided by the number of listed keywords;
\* error codes, tags and path patterns are compared as they are written, and
\* the error codes are divided by the length of the query's list
CalculateScore(q, p) ==
    (Min2((Cardinality({j \in 1..Len(p.keywords) :
                           Contains(ToLowercase(q.text), ToLowercase(p.keywords[j]))})
              * SignalOne) \div (IF p.keywords # <<>> THEN Len(p.keywords) ELSE 1),
          SignalOne) * WKeyword
     + (IF q.error_codes # <<>> /\ p.error_codes # <<>>
        THEN (Cardinality(Range(q.error_codes) \cap Range(p.error_codes)) * SignalOne)
                \div Len(q.error_codes)
        ELSE 0) * WErrorCode
     + (IF q.tags # <<>> /\ p.tags # <<>>
        THEN (Cardinality(Range(q.tags) \cap Range(p.tags)) * SignalOne)
                \div Cardinality(Range(q.tags) \cup Range(p.tags))
        ELSE 0) * WTag
     + (IF /\ q.file_path # NoPath
           /\ \E i \in 1..Len(p.path_patterns) : Contains(q.file_path, p.path_patterns[i])
        THEN SignalOne ELSE 0) * WPath)
    * p.priority

(***************************************************************************)
(* The inputs of the KnowledgeEngine model                                 *)
(***************************************************************************)
\* three patterns: "ab" contains "b", p3 lists one keyword twice (case variants),
\* and p2 and p3 score the same on a text holding "b" and "c"
TestPatterns ==
    << [id |-> "p1", keywords |-> << <<"a", "b">>, <<"c">> >>,
        error_codes |-> << <<"E", "1">> >>, tags |-> << <<"t", "1">> >>,
        path_patterns |-> << <<"s">> >>, priority |-> 8],
       [id |-> "p2", keywords |-> << <<"b">> >>,
        error_codes |-> <<>>, tags |-> << <<"t", "1">>, <<"t", "2">> >>,
        path_patterns |-> <<>>, priority |-> 5],
       [id |-> "p3", keywords |-> << <<"c">>, <<"C">> >>,
        error_codes |-> << <<"e", "1">>, <<"e", "2">> >>, tags |-> <<>>,
        path_patterns |-> << <<"x">> >>, priority |-> 5] >>

\* a pattern outside the data model: priority 2.0
WildPatterns ==
    << [id |-> "p9", keywords |-> << <<"b">> >>, error_codes |-> <<>>, tags |-> <<>>,
        path_patterns |-> <<>>, priority |-> 20] >>

\* the pattern lists an engine is constructed from
PatternLists == {TestPatterns, WildPatterns, <<>>}

Queries ==
    { [text |-> <<"b", "c">>, error_codes |-> <<>>, tags |-> <<>>, file_path |-> NoPath],
      [text |-> <<"A", "b", "c">>, error_codes |-> << <<"E", "1">>, <<"E", "3">> >>,
       tags |-> << <<"T", "1">> >>, file_path |-> <<"S", "x">>],
      [text |-> <<"x">>, error_codes |-> << <<"E", "1">> >>,
       tags |-> << <<"t", "1">> >>, file_path |-> NoPath] }

\* the callers of one engine
Threads == {1, 2}

\* largest top_k passed to match_patterns
MaxTopK == 1
\* usize::MAX, for a usize of 30 bits
UsizeMax == 2^30 - 1
\* the clock stops advancing here
MaxTime == 2
\* cache_max_size (1000 in KnowledgeEngine::new), scaled to the model
CacheMaxSize == 2
\* the TTL passed to cache_set (300 s in match_patterns), in clock ticks
Ttl == 1

(***************************************************************************)
(* The cache (knowledge.rs 358-416)                                        *)
(***************************************************************************)
\* compute_cache_key hashes text, error_codes, tags and file_path, and nothing
\* else (not top_k); distinct field tuples are taken to hash differently
ComputeCacheKey(q) == <<q.text, q.error_codes, q.tags, q.file_path>>

\* mutant: an entry lives one tick longer than its TTL
IsExpired_Late(e, t) == t - e.created_at > e.ttl + 1

\* CacheEntry::is_expired at clock reading t
IsExpired(e, t) == t - e.created_at > e.ttl

\* mutant: the expiry test of cache_get is inverted
CacheGet_Inverted(c, key, t) ==
    IF key \in DOMAIN c /\ IsExpired(c[key], t)
    THEN [some |-> TRUE, value |-> c[key].value, created_at |-> c[key].created_at]
    ELSE [some |-> FALSE]

\* cache_get: the cached value, or None
CacheGet(c, key, t) ==
    IF key \in DOMAIN c /\ ~IsExpired(c[key], t)
    THEN [some |-> TRUE, value |-> c[key].value, created_at |-> c[key].created_at]
    ELSE [some |-> FALSE]

\* HashMap::remove and HashMap::insert
MapRemove(c, ks) == [k \in DOMAIN c \ ks |-> c[k]]
MapInsert(c, key, e) == [k \in DOMAIN c \cup {key} |-> IF k = key THEN e ELSE c[k]]

\* expired_keys of cache_set
ExpiredKeys(c, t) == {k \in DOMAIN c : IsExpired(c[k], t)}

\* mutant: max_by_key instead of min_by_key
OldestKeys_Newest(c) == {k \in DOMAIN c : \A j \in DOMAIN c : c[k].created_at >= c[j].created_at}

\* the candidates of min_by_key(created_at): HashMap iteration order decides
\* among entries of equal created_at
OldestKeys(c) == {k \in DOMAIN c : \A j \in DOMAIN c : c[k].created_at <= c[j].created_at}

\* mutant: the second phase is missing
EvictOldest_Skip(c) == {c}

\* the second phase of the eviction: the maps it may leave
EvictOldest(c) ==
    IF Cardinality(DOMAIN c) >= CacheMaxSize /\ DOMAIN c # {}
    THEN {MapRemove(c, {k}) : k \in OldestKeys(c)}
    ELSE {c}

\* the eviction of cache_set: the maps it may leave
Evict(c, t) ==
    IF Cardinality(DOMAIN c) >= CacheMaxSize
    THEN EvictOldest(MapRemove(c, ExpiredKeys(c, t)))
    ELSE {c}

\* the insertion that ends cache_set, into the map c2 the eviction left
CacheInsert(c2, key, value, ttl, t) ==
    MapInsert(c2, key, [value |-> value, created_at |-> t, ttl |-> ttl])

(***************************************************************************)
(* KnowledgeEngine: construction and calls.  A call of match_patterns is   *)
(* cache_get (under the mutex), the scan and scoring (no mutex), cache_set *)
(* (under the mutex); the take(top_k) that follows the last cache access   *)
(* works on locals and is part of that step.                               *)
(***************************************************************************)
NoArg == [op |-> "none"]
NoCall == [op |-> "none"]

\* history: the call a is the same call as the one that returned last
IsRepeat(l, a) == l.op = "match" /\ l.query = a.query /\ l.top_k = a.top_k

KEInit ==
    /\ patterns \in PatternLists
    /\ cache = <<>>
    /\ lock = 0
    /\ poisoned = FALSE
    /\ now = 0
    /\ pc = [t \in Threads |-> "idle"]
    /\ arg = [t \in Threads |-> NoArg]
    /\ results = [t \in Threads |-> <<>>]
    /\ last = NoCall

\* the clock advances
Tick ==
    /\ now < MaxTime
    /\ now' = now + 1
    /\ UNCHANGED <<patterns, poisoned, cache, lock, pc, arg, results, last>>

\* match_patterns(query, top_k) is entered
MatchPatternsCall(t, q, k) ==
    /\ pc[t] = "idle"
    /\ pc' = [pc EXCEPT ![t] = "get"]
    /\ arg' = [arg EXCEPT ![t] = [op |-> "match", query |-> q, top_k |-> k]]
    /\ UNCHANGED <<patterns, poisoned, cache, lock, now, results, last>>

\* mutant: lock() does not wait for the holder
Lock_NoWait(t, at, to) ==
    /\ pc[t] = at
    /\ ~poisoned
    /\ lock' = t
    /\ pc' = [pc EXCEPT ![t] = to]
    /\ UNCHANGED <<patterns, poisoned, cache, now, arg, results, last>>

\* self.cache.lock() in cache_get, cache_set, clear_cache and cache_stats:
\* the caller waits until the mutex is free
Lock(t, at, to) ==
    /\ pc[t] = at
    /\ lock = 0
    /\ ~poisoned
    /\ lock' = t
    /\ pc' = [pc EXCEPT ![t] = to]
    /\ UNCHANGED <<patterns, poisoned, cache, now, arg, results, last>>

\* mutant: the guard of cache_get is still held after a miss
CacheGetBody_HoldsLock(t) ==
    /\ pc[t] = "get_locked"
    /\ lock = t
    /\ LET cached == CacheGet(cache, ComputeCacheKey(arg[t].query), now)
       IN  IF cached.some
           THEN /\ last' = [op |-> "match", query |-> arg[t].query, top_k |-> arg[t].top_k,
                            out |-> Take(cached.value, arg[t].top_k), hit |-> TRUE,
                            age |-> now - cached.created_at,
                            repeat |-> IsRepeat(last, arg[t]),
                            replaced |-> FALSE, evicted |-> {}, stored |-> FALSE]
                /\ pc' = [pc EXCEPT ![t] = "idle"]
                /\ arg' = [arg EXCEPT ![t] = NoArg]
                /\ lock' = 0
           ELSE /\ pc' = [pc EXCEPT ![t] = "score"]
                /\ UNCHANGED <<arg, last, lock>>
    /\ UNCHANGED <<patterns, poisoned, cache, now, results>>

\* the body of cache_get and, on a hit, the return of match_patterns
CacheGetBody(t) ==
    /\ pc[t] = "get_locked"
    /\ lock = t
    /\ LET cached == CacheGet(cache, ComputeCacheKey(arg[t].query), now)
       IN  IF cached.some
           THEN /\ last' = [op |-> "match", query |-> arg[t].query, top_k |-> arg[t].top_k,
                            out |-> Take(cached.value, arg[t].top_k), hit |-> TRUE,
                            age |-> now - cached.created_at,
                            repeat |-> IsRepeat(last, arg[t]),
                            replaced |-> FALSE, evicted |-> {}, stored |-> FALSE]
                /\ pc' = [pc EXCEPT ![t] = "idle"]
                /\ arg' = [arg EXCEPT ![t] = NoArg]
           ELSE /\ pc' = [pc EXCEPT ![t] = "score"]
                /\ UNCHANGED <<arg, last>>
    /\ lock' = 0
    /\ UNCHANGED <<patterns, poisoned, cache, now, results>>

\* the scan, the scoring, the sort and `top_k * 2`: where the product exceeds
\* usize::MAX a build with overflow checks panics and a build without wraps
Score(t) ==
    /\ pc[t] = "score"
    /\ results' \in {[results EXCEPT ![t] = r] : r \in SortedResults(patterns, arg[t].query)}
    /\ \/ pc' = [pc EXCEPT ![t] = "set"]
       \/ /\ arg[t].top_k * 2 > UsizeMax
          /\ pc' = [pc EXCEPT ![t] = "panicked"]
    /\ UNCHANGED <<patterns, poisoned, cache, lock, now, arg, last>>

\* the body of cache_set and the return of match_patterns
CacheSetBody(t) ==
    /\ pc[t] = "set_locked"
    /\ lock = t
    /\ \E c2 \in Evict(cache, now) :
           /\ cache' = CacheInsert(c2, ComputeCacheKey(arg[t].query),
                                   Take(results[t], (arg[t].top_k * 2) % (UsizeMax + 1)),
                                   Ttl, now)
           /\ last' = [op |-> "match", query |-> arg[t].query, top_k |-> arg[t].top_k,
                       out |-> Take(results[t], arg[t].top_k), hit |-> FALSE, age |-> 0,
                       repeat |-> IsRepeat(last, arg[t]),
                       replaced |-> ComputeCacheKey(arg[t].query) \in DOMAIN cache,
                       evicted |-> DOMAIN cache \ DOMAIN c2, stored |-> TRUE]
    /\ lock' = 0
    /\ pc' = [pc EXCEPT ![t] = "idle"]
    /\ arg' = [arg EXCEPT ![t] = NoArg]
    /\ results' = [results EXCEPT ![t] = <<>>]
    /\ UNCHANGED <<patterns, poisoned, now>>

\* clear_cache() is entered
ClearCacheCall(t) ==
    /\ pc[t] = "idle"
    /\ pc' = [pc EXCEPT ![t] = "clear"]
    /\ arg' = [arg EXCEPT ![t] = [op |-> "clear"]]
    /\ UNCHANGED <<patterns, poisoned, cache, lock, now, results, last>>

\* the body of clear_cache
ClearCacheBody(t) ==
    /\ pc[t] = "clear_locked"
    /\ lock = t
    /\ cache' = <<>>
    /\ last' = NoCall
    /\ lock' = 0
    /\ pc' = [pc EXCEPT ![t] = "idle"]
    /\ arg' = [arg EXCEPT ![t] = NoArg]
    /\ UNCHANGED <<patterns, poisoned, now, results>>

\* calculate_score(query, &self.patterns[idx - 1]): no lock, no cache; the
\* call that returned before it is kept with its result
CalculateScoreCall(t, q, idx) ==
    /\ pc[t] = "idle"
    /\ idx \in 1..Len(patterns)
    /\ last' = [op |-> "calculate_score", query |-> q,
                pattern_id |-> patterns[idx].id,
                out |-> CalculateScore(q, patterns[idx]), before |-> last]
    /\ UNCHANGED <<patterns, poisoned, cache, lock, now, pc, arg, results>>

\* a user of the mutex panics while it holds the guard: the mutex is
\* poisoned for good and every later lock() returns Err
PoisonLock ==
    /\ ~poisoned
    /\ lock = 0
    /\ poisoned' = TRUE
    /\ UNCHANGED <<patterns, cache, lock, now, pc, arg, results, last>>

\* `self.cache.lock().ok()?` of cache_get on a poisoned mutex: None
CacheGetLockErr(t) ==
    /\ pc[t] = "get"
    /\ lock = 0
    /\ poisoned
    /\ pc' = [pc EXCEPT ![t] = "score"]
    /\ UNCHANGED <<patterns, poisoned, cache, lock, now, arg, results, last>>

\* mutant: cache_set stores although the mutex is poisoned
CacheSetLockErr_Stores(t) ==
    /\ pc[t] = "set"
    /\ lock = 0
    /\ poisoned
    /\ cache' = CacheInsert(cache, ComputeCacheKey(arg[t].query), results[t], Ttl, now)
    /\ last' = [op |-> "match", query |-> arg[t].query, top_k |-> arg[t].top_k,
                out |-> Take(results[t], arg[t].top_k), hit |-> FALSE, age |-> 0,
                repeat |-> IsRepeat(last, arg[t]), replaced |-> FALSE, evicted |-> {},
                stored |-> FALSE]
    /\ pc' = [pc EXCEPT ![t] = "idle"]
    /\ arg' = [arg EXCEPT ![t] = NoArg]
    /\ results' = [results EXCEPT ![t] = <<>>]
    /\ UNCHANGED <<patterns, poisoned, lock, now>>

\* `if let Ok(..) = self.cache.lock()` of cache_set on a poisoned mutex:
\* nothing is stored, and match_patterns returns
CacheSetLockErr(t) ==
    /\ pc[t] = "set"
    /\ lock = 0
    /\ poisoned
    /\ last' = [op |-> "match", query |-> arg[t].query, top_k |-> arg[t].top_k,
                out |-> Take(results[t], arg[t].top_k), hit |-> FALSE, age |-> 0,
                repeat |-> IsRepeat(last, arg[t]), replaced |-> FALSE, evicted |-> {},
                stored |-> FALSE]
    /\ pc' = [pc EXCEPT ![t] = "idle"]
    /\ arg' = [arg EXCEPT ![t] = NoArg]
    /\ results' = [results EXCEPT ![t] = <<>>]
    /\ UNCHANGED <<patterns, poisoned, cache, lock, now>>

\* clear_cache on a poisoned mutex
ClearCacheLockErr(t) ==
    /\ pc[t] = "clear"
    /\ lock = 0
    /\ poisoned
    /\ last' = [op |-> "clear_cache"]
    /\ pc' = [pc EXCEPT ![t] = "idle"]
    /\ arg' = [arg EXCEPT ![t] = NoArg]
    /\ UNCHANGED <<patterns, poisoned, cache, lock, now, results>>

\* cache_stats() is entered
CacheStatsCall(t) ==
    /\ pc[t] = "idle"
    /\ pc' = [pc EXCEPT ![t] = "stats"]
    /\ arg' = [arg EXCEPT ![t] = [op |-> "stats"]]
    /\ UNCHANGED <<patterns, poisoned, cache, lock, now, results, last>>

\* the body of cache_stats: (total, total - expired)
CacheStatsBody(t) ==
    /\ pc[t] = "stats_locked"
    /\ lock = t
    /\ last' = [op |-> "cache_stats",
                out |-> <<Cardinality(DOMAIN cache),
                          Cardinality(DOMAIN cache) - Cardinality(ExpiredKeys(cache, now))>>]
    /\ lock' = 0
    /\ pc' = [pc EXCEPT ![t] = "idle"]
    /\ arg' = [arg EXCEPT ![t] = NoArg]
    /\ UNCHANGED <<patterns, poisoned, cache, now, results>>

\* cache_stats on a poisoned mutex: (0, 0)
CacheStatsLockErr(t) ==
    /\ pc[t] = "stats"
    /\ lock = 0
    /\ poisoned
    /\ last' = [op |-> "cache_stats", out |-> <<0, 0>>]
    /\ pc' = [pc EXCEPT ![t] = "idle"]
    /\ arg' = [arg EXCEPT ![t] = NoArg]
    /\ UNCHANGED <<patterns, poisoned, cache, lock, now, results>>

\* the calls of the callers in T, with queries drawn from Qs and top_k from Ks
KENextFor(T, Ks, Qs) ==
    \/ Tick /\ UNCHANGED <<wmVars, tdVars, ceVars, vecVars>>
    \/ \E t \in T, q \in Qs, k \in Ks :
          MatchPatternsCall(t, q, k) /\ UNCHANGED <<wmVars, tdVars, ceVars, vecVars>>
    \/ \E t \in T : Lock(t, "get", "get_locked") /\ UNCHANGED <<wmVars, tdVars, ceVars, vecVars>>
    \/ \E t \in T : CacheGetBody(t) /\ UNCHANGED <<wmVars, tdVars, ceVars, vecVars>>
    \/ \E t \in T : Score(t) /\ UNCHANGED <<wmVars, tdVars, ceVars, vecVars>>
    \/ \E t \in T : Lock(t, "set", "set_locked") /\ UNCHANGED <<wmVars, tdVars, ceVars, vecVars>>
    \/ \E t \in T : CacheSetBody(t) /\ UNCHANGED <<wmVars, tdVars, ceVars, vecVars>>
    \/ \E t \in T : ClearCacheCall(t) /\ UNCHANGED <<wmVars, tdVars, ceVars, vecVars>>
    \/ \E t \in T : Lock(t, "clear", "clear_locked") /\ UNCHANGED <<wmVars, tdVars, ceVars, vecVars>>
    \/ \E t \in T : ClearCacheBody(t) /\ UNCHANGED <<wmVars, tdVars, ceVars, vecVars>>

\* the top_k of the callers where top_k is fixed
ConcTopKs == {1}

\* a step of caller t at or behind a lock(): the lock() returns, or the
\* code behind it runs up to the release of the guard
KEProceed(t) ==
    \/ Lock(t, "get", "get_locked") /\ UNCHANGED <<wmVars, tdVars, ceVars, vecVars>>
    \/ CacheGetBody(t) /\ UNCHANGED <<wmVars, tdVars, ceVars, vecVars>>
    \/ Lock(t, "set", "set_locked") /\ UNCHANGED <<wmVars, tdVars, ceVars, vecVars>>
    \/ CacheSetBody(t) /\ UNCHANGED <<wmVars, tdVars, ceVars, vecVars>>
    \/ Lock(t, "clear", "clear_locked") /\ UNCHANGED <<wmVars, tdVars, ceVars, vecVars>>
    \/ ClearCacheBody(t) /\ UNCHANGED <<wmVars, tdVars, ceVars, vecVars>>
    \/ Lock(t, "stats", "stats_locked") /\ UNCHANGED <<wmVars, tdVars, ceVars, vecVars>>
    \/ CacheStatsBody(t) /\ UNCHANGED <<wmVars, tdVars, ceVars, vecVars>>

\* one caller and a mutex that may get poisoned
KEPoisonNext ==
    \/ KENextFor({1}, ConcTopKs, Queries)
    \/ PoisonLock /\ UNCHANGED <<wmVars, tdVars, ceVars, vecVars>>
    \/ CacheGetLockErr(1) /\ UNCHANGED <<wmVars, tdVars, ceVars, vecVars>>
    \/ CacheSetLockErr(1) /\ UNCHANGED <<wmVars, tdVars, ceVars, vecVars>>
    \/ ClearCacheLockErr(1) /\ UNCHANGED <<wmVars, tdVars, ceVars, vecVars>>
    \/ CacheStatsCall(1) /\ UNCHANGED <<wmVars, tdVars, ceVars, vecVars>>
    \/ Lock(1, "stats", "stats_locked") /\ UNCHANGED <<wmVars, tdVars, ceVars, vecVars>>
    \/ CacheStatsBody(1) /\ UNCHANGED <<wmVars, tdVars, ceVars, vecVars>>
    \/ CacheStatsLockErr(1) /\ UNCHANGED <<wmVars, tdVars, ceVars, vecVars>>


\* scenario A: one pattern whose keywords, error code and tag all match the
\* query, followed by a pattern of priority 0.0
ScenarioAPatterns ==
    << [id |-> "pat1",
        keywords |-> << <<"r", "u", "s", "t">>, <<"e", "r", "r", "o", "r">>,
                        <<"c", "o", "m", "p", "i", "l", "e">> >>,
        error_codes |-> << <<"E", "0", "0", "0", "1">> >>,
        tags |-> << <<"r", "u", "s", "t">> >>,
        path_patterns |-> <<>>, priority |-> 9],
       [id |-> "pat0", keywords |-> << <<"r", "u", "s", "t">> >>,
        error_codes |-> <<>>, tags |-> <<>>, path_patterns |-> <<>>, priority |-> 0] >>

ScenarioAQuery ==
    [text |-> <<"r", "u", "s", "t", " ", "c", "o", "m", "p", "i", "l", "e", " ",
                "e", "r", "r", "o", "r">>,
     error_codes |-> << <<"E", "0", "0", "0", "1">> >>,
     tags |-> << <<"r", "u", "s", "t">> >>, file_path |-> NoPath]

\* an empty text with error codes, a tag and a file path
EmptyTextQuery ==
    [text |-> <<>>, error_codes |-> << <<"E", "1">>, <<"E", "0", "0", "0", "1">> >>,
     tags |-> << <<"t", "1">> >>, file_path |-> <<"s", "x">>]

\* the queries of the scoring specification
ScoreQueries ==
    {ScenarioAQuery, EmptyTextQuery,
     [text |-> <<"A", "b", "c">>, error_codes |-> << <<"E", "1">>, <<"E", "3">> >>,
      tags |-> << <<"T", "1">> >>, file_path |-> <<"S", "x">>]}

KEScoreInit ==
    /\ patterns \in {ScenarioAPatterns, TestPatterns, <<>>}
    /\ cache = <<>>
    /\ lock = 0
    /\ poisoned = FALSE
    /\ now = 0
    /\ pc = [t \in Threads |-> "idle"]
    /\ arg = [t \in Threads |-> NoArg]
    /\ results = [t \in Threads |-> <<>>]
    /\ last = NoCall


(***************************************************************************)
(* Vector operations (learning.rs 549-576).  A component x is the integer  *)
(* x * VecOne, a similarity is the integer sim * SimOne; the vectors of    *)
(* the model have integer norms, so that sqrt and the divisions are exact. *)
(***************************************************************************)
\* 1.0 of a vector component
VecOne == 5
\* 1.0 of a similarity
SimOne == VecOne * VecOne

\* f32 arithmetic.  A finite f32 is an integer of magnitude at most FloatMax;
\* a result beyond that is an infinity, and NaN is a value of its own, below
\* every other so that every `x >= y` and `x <= y` on it is as false as in f32.
FloatMax == 1000
Inf == FloatMax + 1
NaN == -2 * Inf
IsFinite(x) == x <= FloatMax /\ x >= -FloatMax
F32Round(x) == IF x > FloatMax THEN Inf ELSE IF x < -FloatMax THEN -Inf ELSE x
F32Mul(x, y) ==
    IF IsFinite(x) /\ IsFinite(y) THEN F32Round(x * y)
    ELSE IF x = NaN \/ y = NaN \/ x = 0 \/ y = 0 THEN NaN
    ELSE IF (x > 0) = (y > 0) THEN Inf ELSE -Inf
F32Add(x, y) ==
    IF IsFinite(x) /\ IsFinite(y) THEN F32Round(x + y)
    ELSE IF x = NaN \/ y = NaN THEN NaN
    ELSE IF x = Inf \/ x = -Inf THEN IF y = -x THEN NaN ELSE x
    ELSE y

\* the sum of x * y over two vectors of the same length (units of 1/SimOne)
\* in exact arithmetic
RECURSIVE SumFrom(_, _, _)
SumFrom(a, b, i) == IF i > Len(a) THEN 0 ELSE a[i] * b[i] + SumFrom(a, b, i + 1)

\* a.iter().zip(b.iter()).map(|(x, y)| x * y).sum(): every product and every
\* partial sum, folded from 0.0 in the order of the components, is an f32
RECURSIVE DotFrom(_, _, _, _)
DotFrom(a, b, i, acc) ==
    IF i > Len(a) THEN acc ELSE DotFrom(a, b, i + 1, F32Add(acc, F32Mul(a[i], b[i])))
Dot(a, b) == DotFrom(a, b, 1, 0)

\* f32::sqrt on the squares that occur: the least r with r * r >= n
ISqrt(n) == IF n = Inf THEN Inf ELSE CHOOSE r \in 0..n : r * r >= n

\* a.iter().map(|x| x * x).sum::<f32>().sqrt(), in units of 1/VecOne: the
\* squares are not negative, so the partial sums grow and one of them
\* exceeds the largest f32 exactly when the exact sum does
Norm(v) == ISqrt(F32Round(SumFrom(v, v, 1)))

\* x / y for a finite x and a y > 0, the quotient in units of 1/one
F32Div(x, y, one) == IF y = Inf THEN 0 ELSE (x * one) \div y

\* normalize_vector: a zero vector is left as it is
NormalizeVector(v) ==
    CHOOSE r \in {IF norm > 0 THEN [i \in 1..Len(v) |-> F32Div(v[i], norm, VecOne)] ELSE v :
                     norm \in {Norm(v)}} : TRUE

\* f32::clamp: NaN stays NaN
Clamp(x, lo, hi) == IF x > hi THEN hi ELSE IF x >= lo THEN x ELSE IF x = NaN THEN NaN ELSE lo

\* dot / (norm_a * norm_b) for norms above 0.0
CosineQuotient(dot, den) ==
    IF IsFinite(dot) THEN F32Div(dot, den, SimOne)
    ELSE IF dot = NaN \/ den = Inf THEN NaN
    ELSE dot

\* cosine_similarity.  Where both norms are finite no product and no partial
\* sum of the dot product exceeds the largest f32 (Cauchy-Schwarz), and the
\* fold of Dot is the exact sum
CosineSimilarity(a, b) ==
    IF Len(a) # Len(b) \/ Len(a) = 0 THEN 0
    ELSE CHOOSE r \in {IF norm_a = 0 \/ norm_b = 0 THEN 0
                        ELSE Clamp(CosineQuotient(IF norm_a = Inf \/ norm_b = Inf
                                                  THEN Dot(a, b) ELSE SumFrom(a, b, 1),
                                                  F32Mul(norm_a, norm_b)),
                                   -SimOne, SimOne) :
                          norm_a \in {Norm(a)}, norm_b \in {Norm(b)}} : TRUE

\* the vectors handed to cosine_similarity: those of the cluster batches,
\* opposite and empty ones, and ones whose squares exceed the largest f32
VecInputs == {<<5, 0>>, <<4, 3>>, <<3, 4>>, <<0, 0>>, <<5>>, <<>>, <<-5, 0>>, <<0>>,
              <<40, 0>>, <<-40, 0>>, <<40>>, <<0, 40>>}

VecInit ==
    /\ vec_args = <<>>
    /\ vec_ret = [op |-> "none"]

\* a call cosine_similarity(a, b)
CosineSimilarityCall(a, b) ==
    /\ vec_args' = <<a, b>>
    /\ vec_ret' = [op |-> "cosine_similarity", value |-> CosineSimilarity(a, b)]

(***************************************************************************)
(* WorkingMemory (learning.rs 118-252).  content and tags of a MemoryEntry *)
(* are carried by no operation and are left out.                           *)
(***************************************************************************)
\* the entries handed to add: importance in tenths, embedding not normalized;
\* entry1 and entry2 point the same way, entry3 has a zero embedding
EntryCatalog ==
    { [id |-> "entry0", embedding |-> <<10, 0>>, access_count |-> 0, last_access_ms |-> 0,
       importance |-> 0],
      [id |-> "entry1", embedding |-> <<3, 4>>, access_count |-> 0, last_access_ms |-> 0,
       importance |-> 2],
      [id |-> "entry2", embedding |-> <<6, 8>>, access_count |-> 0, last_access_ms |-> 0,
       importance |-> 4],
      [id |-> "entry3", embedding |-> <<0, 0>>, access_count |-> 0, last_access_ms |-> 0,
       importance |-> 6] }

\* largest capacity handed to WorkingMemory::new
MaxCapacity == 2
\* largest top_k handed to similarity_search
MaxSearchK == 2
\* the millisecond clock of the store stops advancing here
MaxMs == 1
\* similarity_search is not called on an entry that has been accessed this often
MaxAccess == 2

\* ln_1p(access_count) * 1000, for access_count = 1, 2, ...
Ln1pTable == <<693, 1099, 1386, 1609, 1792, 1946>>
Ln1p(n) == IF n = 0 THEN 0 ELSE Ln1pTable[n]

\* the score find_eviction_candidate compares
EvictionScore(e) == e.last_access_ms * e.importance * Ln1p(e.access_count)

\* mutant: the last entry of minimal score is taken
FindEvictionCandidate_LastMin(es) ==
    IF es = <<>> THEN 0
    ELSE (CHOOSE i \in 1..Len(es) :
            /\ \A j \in 1..Len(es) : EvictionScore(es[i]) <= EvictionScore(es[j])
            /\ \A j \in (i + 1)..Len(es) : EvictionScore(es[j]) > EvictionScore(es[i])) - 1

\* find_eviction_candidate: the 0-based index of the first entry of minimal
\* score (Iterator::min_by keeps the first of equal elements), 0 when empty
FindEvictionCandidate(es) ==
    IF es = <<>> THEN 0
    ELSE (CHOOSE i \in 1..Len(es) :
            /\ \A j \in 1..Len(es) : EvictionScore(es[i]) <= EvictionScore(es[j])
            /\ \A j \in 1..(i - 1) : EvictionScore(es[j]) > EvictionScore(es[i])) - 1

\* history: wm_adds once the calls so far are no run of adds from the empty store
AddsBroken == <<-1>>

WMInit ==
    /\ entries = <<>>
    /\ max_capacity \in 0..MaxCapacity
    /\ wm_ms = 0
    /\ wm_status = "ok"
    /\ wm_ret = [op |-> "none"]
    /\ wm_adds = <<>>

\* a millisecond passes
WMTick ==
    /\ wm_status = "ok"
    /\ wm_ms < MaxMs
    /\ wm_ms' = wm_ms + 1
    /\ UNCHANGED <<entries, max_capacity, wm_status, wm_ret, wm_adds>>

\* the entry add stores for the argument e
Stamped(e) ==
    [e EXCEPT !.last_access_ms = wm_ms, !.access_count = 1,
              !.embedding = NormalizeVector(e.embedding)]

\* add(entry); Vec::remove panics when the index is not below the length
Add(e) ==
    /\ wm_status = "ok"
    /\ IF Len(entries) >= max_capacity
       THEN LET evict_idx == FindEvictionCandidate(entries)
            IN  IF evict_idx >= Len(entries)
                THEN /\ wm_status' = "panicked"
                     /\ wm_ret' = [op |-> "add", panic |-> TRUE]
                     /\ UNCHANGED entries
                ELSE /\ entries' = Append(RemoveAt(entries, evict_idx + 1), Stamped(e))
                     /\ wm_ret' = [op |-> "add", panic |-> FALSE, index |-> Len(entries') - 1,
                                   evicted |-> <<entries[evict_idx + 1]>>]
                     /\ UNCHANGED wm_status
       ELSE /\ entries' = Append(entries, Stamped(e))
            /\ wm_ret' = [op |-> "add", panic |-> FALSE, index |-> Len(entries') - 1,
                          evicted |-> <<>>]
            /\ UNCHANGED wm_status
    /\ wm_adds' = IF wm_adds # AddsBroken /\ Len(wm_adds) <= max_capacity
                  THEN Append(wm_adds, e.importance)
                  ELSE AddsBroken
    /\ UNCHANGED <<max_capacity, wm_ms>>

\* mutant: the comparison of the sort is the wrong way round
SortDescOrder_Asc(sim) ==
    LET n       == Len(sim)
        rank(i) == Cardinality({j \in 1..n : sim[j] < sim[i] \/ (sim[j] = sim[i] /\ j < i)}) + 1
    IN  [p \in 1..n |-> CHOOSE i \in 1..n : rank(i) = p]

\* slice::sort_by (stable) by similarity descending: the positions of the list
\* sim in the order the sort leaves them
SortDescOrder(sim) ==
    LET n       == Len(sim)
        rank(i) == Cardinality({j \in 1..n : sim[j] > sim[i] \/ (sim[j] = sim[i] /\ j < i)}) + 1
    IN  [p \in 1..n |-> CHOOSE i \in 1..n : rank(i) = p]

\* the SimilarityResult list of similarity_search before take(top_k)
SearchResults(es, query) ==
    CHOOSE r \in
        {[p \in 1..Len(es) |->
             [index |-> order[p] - 1, id |-> es[order[p]].id, similarity |-> sim[order[p]]]] :
           <<sim, order>> \in
              {<<sm, SortDescOrder(sm)>> :
                 sm \in {[i \in 1..Len(es) |-> CosineSimilarity(query_norm, es[i].embedding)] :
                            query_norm \in {NormalizeVector(query)}}}} : TRUE

\* similarity_search(query, top_k)
SimilaritySearch(query, top_k) ==
    /\ wm_status = "ok"
    /\ IF entries = <<>> \/ query = <<>>
       THEN /\ wm_ret' = [op |-> "search", query |-> query, top_k |-> top_k, out |-> <<>>]
            /\ UNCHANGED entries
       ELSE \E out \in {Take(SearchResults(entries, query), top_k)} :
            \E hit \in {{out[i].index + 1 : i \in 1..Len(out)}} :
                /\ \A i \in hit : entries[i].access_count < MaxAccess
                /\ entries' = [i \in 1..Len(entries) |->
                                 IF i \in hit
                                 THEN [entries[i] EXCEPT !.last_access_ms = wm_ms,
                                                         !.access_count = @ + 1]
                                 ELSE entries[i]]
                /\ wm_ret' = [op |-> "search", query |-> query, top_k |-> top_k, out |-> out]
    /\ wm_adds' = AddsBroken
    /\ UNCHANGED <<max_capacity, wm_ms, wm_status>>

\* get_by_id(id): self.entries.iter().find(|e| e.id == id); the first entry
\* with that id as a list of one, the empty list for None
GetById(es, id) ==
    IF \E i \in 1..Len(es) : es[i].id = id
    THEN <<es[CHOOSE i \in 1..Len(es) : es[i].id = id /\ \A j \in 1..(i - 1) : es[j].id # id]>>
    ELSE <<>>

\* remove(id)
Remove(id) ==
    /\ wm_status = "ok"
    /\ LET found == {i \in 1..Len(entries) : entries[i].id = id}
       IN  IF found # {}
           THEN /\ entries' = RemoveAt(entries, CHOOSE i \in found : \A j \in found : i <= j)
                /\ wm_ret' = [op |-> "remove", id |-> id, out |-> TRUE]
           ELSE /\ wm_ret' = [op |-> "remove", id |-> id, out |-> FALSE]
                /\ UNCHANGED entries
    /\ wm_adds' = AddsBroken
    /\ UNCHANGED <<max_capacity, wm_ms, wm_status>>

\* clear()
Clear ==
    /\ wm_status = "ok"
    /\ entries' = <<>>
    /\ wm_ret' = [op |-> "clear"]
    /\ wm_adds' = AddsBroken
    /\ UNCHANGED <<max_capacity, wm_ms, wm_status>>

\* two entries of importance 0.0 that point different ways and one of
\* importance 0.6
EvictCatalog ==
    { [id |-> "entry0", embedding |-> <<10, 0>>, access_count |-> 0, last_access_ms |-> 0,
       importance |-> 0],
      [id |-> "entry4", embedding |-> <<0, -5>>, access_count |-> 0, last_access_ms |-> 0,
       importance |-> 0],
      [id |-> "entry3", embedding |-> <<3, 4>>, access_count |-> 0, last_access_ms |-> 0,
       importance |-> 6] }

\* the calls on one store, with entries drawn from Catalog
WMNextFor(Catalog) ==
    \/ WMTick /\ UNCHANGED <<keVars, tdVars, ceVars, vecVars>>
    \/ \E e \in Catalog : Add(e) /\ UNCHANGED <<keVars, tdVars, ceVars, vecVars>>
    \/ \E query \in {<<>>, <<10, 0>>, <<0, -5>>}, top_k \in 0..MaxSearchK :
          SimilaritySearch(query, top_k) /\ UNCHANGED <<keVars, tdVars, ceVars, vecVars>>
    \/ \E e \in Catalog : Remove(e.id) /\ UNCHANGED <<keVars, tdVars, ceVars, vecVars>>
    \/ Clear /\ UNCHANGED <<keVars, tdVars, ceVars, vecVars>>

(***************************************************************************)
(* TDLearner (learning.rs)                                                 *)
(*                                                                         *)
(* An f64 is kept as a reduced fraction <<n, d>> with d > 0.  Every value  *)
(* the model reaches is a dyadic fraction with a small numerator, which    *)
(* f64 represents exactly, so the arithmetic below is the arithmetic of    *)
(* the code.  NaN and the infinities are outside the model.                *)
(***************************************************************************)
RECURSIVE Gcd(_, _)
Gcd(a, b) == IF b = 0 THEN a ELSE Gcd(b, a % b)

\* the reduced fraction n / d, d > 0
Frac(n, d) == CHOOSE r \in {<<n \div g, d \div g>> : g \in {Gcd(IF n < 0 THEN -n ELSE n, d)}} : TRUE

Zero == <<0, 1>>
One == <<1, 1>>

FAdd(x, y) == Frac(x[1] * y[2] + y[1] * x[2], x[2] * y[2])
FSub(x, y) == Frac(x[1] * y[2] - y[1] * x[2], x[2] * y[2])
FMul(x, y) == Frac(x[1] * y[1], x[2] * y[2])
FGt(x, y) == x[1] * y[2] > y[1] * x[2]

\* f64::max
FMax(a, b) == IF FGt(b, a) THEN b ELSE a

\* mutant: the upper limit of the clamp is missing
FClamp01_NoUpper(x) == IF FGt(Zero, x) THEN Zero ELSE x

\* f64::clamp(0.0, 1.0)
FClamp01(x) == IF FGt(Zero, x) THEN Zero ELSE IF FGt(x, One) THEN One ELSE x

\* let trace_threshold = 0.01
\* a threshold of 0.001
TraceThreshold_Small == <<1, 1000>>

\* mutant: a threshold below zero
TraceThreshold_Negative == <<-1, 100>>

TraceThreshold == <<1, 100>>

\* State::id and Action::id values passed to update and the getters
StateIds == {<<"s">>, <<"t">>}
ActionIds == {<<"a">>, <<"b">>}

\* next_action: Option<&Action>; None
NoAction == <<"<none>">>

\* the alpha, gamma and lambda arguments of TDLearner::new; two of them lie
\* outside [0, 1] and are clamped
HyperInputs == {<<-1, 2>>, <<1, 2>>, <<3, 2>>}

\* the maps handed to import_q_table: a well-formed key with a negative
\* value; a key without separator next to a well-formed one; a key with two
\* separators
ImportData ==
    { (<<"s", "|", "a">> :> <<-1, 1>>),
      (<<"s", "a">> :> <<1, 1>>) @@ (<<"t", "|", "b">> :> <<2, 1>>),
      (<<"s", "|", "a", "|", "b">> :> <<1, 1>>) }

\* number of TDLearner calls in one behaviour
MaxTDSteps == 3

\* history: no call yet; the calls so far are not one update repeated
EmptyRun == [n |-> 0]
RunBroken == [n |-> -1]

\* history: the run after one more update call `call` that left Q(s, a) = q
NextRun(run, call, q) ==
    IF run.n = 0 THEN [n |-> 1, call |-> call, qs |-> <<q>>]
    ELSE IF run.n > 0 /\ run.call = call
         THEN [n |-> run.n + 1, call |-> call, qs |-> Append(run.qs, q)]
         ELSE RunBroken

\* TDLearner::new
TDInit ==
    /\ \E alpha \in HyperInputs, gamma \in HyperInputs, lambda \in HyperInputs :
          hyper = [alpha |-> FClamp01(alpha), gamma |-> FClamp01(gamma),
                   lambda |-> FClamp01(lambda)]
    /\ q_table = <<>>
    /\ eligibility_traces = <<>>
    /\ td_ret = [op |-> "none"]
    /\ td_steps = 0
    /\ td_run = EmptyRun
    /\ td_age = <<>>

\* get_q: *self.q_table.get(&key).unwrap_or(&0.0)
GetQ(q, state, action) ==
    IF <<state, action>> \in DOMAIN q THEN q[<<state, action>>] ELSE Zero

\* the keys of q recorded for a state: .filter(|((s, _), _)| s == &state.id)
KeysOf(q, state) == {k \in DOMAIN q : k[1] = state}

\* get_max_q: .fold(0.0_f64, |a, b| a.max(b)) over the values recorded for
\* the state; the fold of max is the greatest element of the values and 0.0
GetMaxQ(q, state) ==
    LET vals == {q[k] : k \in KeysOf(q, state)} \cup {Zero}
    IN  CHOOSE v \in vals : \A w \in vals : FMax(v, w) = v

\* mutant: any recorded action is returned
BestActions_Any(q, state) == {k[2] : k \in KeysOf(q, state)}

\* get_best_action: max_by over the HashMap iterator; the iteration order is
\* unspecified, so any action carrying the greatest value can be returned
BestActions(q, state) ==
    {k[2] : k \in {m \in KeysOf(q, state) : \A o \in KeysOf(q, state) : ~FGt(q[o], q[m])}}

\* the position of the first '|' of key, 0 when there is none
FirstSep(key) ==
    IF \E i \in 1..Len(key) : key[i] = "|"
    THEN CHOOSE i \in 1..Len(key) : key[i] = "|" /\ \A j \in 1..(i - 1) : key[j] # "|"
    ELSE 0

\* key.splitn(2, '|').collect(): at most two parts, split at the first '|'
SplitN2(key) ==
    IF FirstSep(key) = 0
    THEN <<key>>
    ELSE <<SubSeq(key, 1, FirstSep(key) - 1), SubSeq(key, FirstSep(key) + 1, Len(key))>>

\* mutant: the separator is missing from the key
ExportKey_NoSeparator(k) == k[1] \o k[2]

\* format!("{}|{}", s, a)
ExportKey(k) == k[1] \o <<"|">> \o k[2]

\* export_q_table: collect() into a HashMap keeps, for a key produced by
\* several pairs, the value of the pair iterated last
ExportOutcomes(q) ==
    {f \in [{ExportKey(k) : k \in DOMAIN q} -> {q[k] : k \in DOMAIN q}] :
        \A s \in DOMAIN f : \E k \in DOMAIN q : ExportKey(k) = s /\ f[s] = q[k]}

\* the Q-table after import_q_table(data)
Imported(q, data) ==
    LET ok == {key \in DOMAIN data : Len(SplitN2(key)) = 2}
        pairOf(key) == <<SplitN2(key)[1], SplitN2(key)[2]>>
    IN  [p \in DOMAIN q \cup {pairOf(key) : key \in ok} |->
            IF \E key \in ok : pairOf(key) = p
            THEN data[CHOOSE key \in ok : pairOf(key) = p]
            ELSE q[p]]

\* mutant: accumulating traces, the visit adds 1.0 to the trace
SetTrace_Accumulate(traces, key) ==
    MapInsert(traces, key, IF key \in DOMAIN traces THEN FAdd(traces[key], One) ELSE One)

\* `*trace = 1.0` on the entry of the current pair: replacing traces
SetTrace(traces, key) == MapInsert(traces, key, One)

\* update(state, action, reward, next_state, next_action)
Update(state, action, reward, next_state, next_action) ==
    /\ \E td_error \in
          {FSub(FAdd(reward,
                     FMul(hyper.gamma,
                          IF next_action # NoAction
                          THEN GetQ(q_table, next_state, next_action)
                          ELSE GetMaxQ(q_table, next_state))),
                GetQ(q_table, state, action))} :
       \E traced \in {SetTrace(eligibility_traces, <<state, action>>)} :
       \E keys_to_update \in {{k \in DOMAIN traced : FGt(traced[k], TraceThreshold)}} :
       \E decayed \in {[k \in DOMAIN traced |->
                          FMul(traced[k], FMul(hyper.gamma, hyper.lambda))]} :
          /\ q_table' =
                [k \in DOMAIN q_table \cup keys_to_update |->
                    IF k \in keys_to_update
                    THEN FAdd(IF k \in DOMAIN q_table THEN q_table[k] ELSE Zero,
                              FMul(FMul(hyper.alpha, td_error), traced[k]))
                    ELSE q_table[k]]
          /\ eligibility_traces' =
                [k \in {m \in DOMAIN decayed : FGt(decayed[m], TraceThreshold)} |->
                    decayed[k]]
          /\ td_ret' = [op |-> "update", key |-> <<state, action>>,
                        reward |-> reward, next_state |-> next_state,
                        next_action |-> next_action,
                        new_q_value |-> q_table'[<<state, action>>],
                        td_error |-> td_error,
                        states_updated |-> Cardinality(keys_to_update)]
    /\ td_steps' = td_steps + 1
    /\ td_run' = NextRun(td_run,
                         [state |-> state, action |-> action, reward |-> reward,
                          next_state |-> next_state, next_action |-> next_action],
                         q_table'[<<state, action>>])
    /\ td_age' = [k \in DOMAIN td_age \cup {<<state, action>>} |->
                    IF k = <<state, action>> THEN 0 ELSE td_age[k] + 1]
    /\ UNCHANGED hyper

\* get_max_q(state)
GetMaxQCall(state) ==
    /\ td_ret' = [op |-> "get_max_q", state |-> state, out |-> GetMaxQ(q_table, state)]
    /\ td_steps' = td_steps + 1
    /\ td_run' = RunBroken
    /\ UNCHANGED td_age
    /\ UNCHANGED <<q_table, eligibility_traces, hyper>>

\* get_best_action(state)
GetBestAction(state) ==
    /\ \E out \in (IF KeysOf(q_table, state) = {} THEN {NoAction}
                   ELSE BestActions(q_table, state)) :
          td_ret' = [op |-> "get_best_action", state |-> state, out |-> out]
    /\ td_steps' = td_steps + 1
    /\ td_run' = RunBroken
    /\ UNCHANGED td_age
    /\ UNCHANGED <<q_table, eligibility_traces, hyper>>

\* mutant: the traces are not cleared
ResetTraces_NoClear ==
    /\ td_ret' = [op |-> "reset_traces"]
    /\ td_steps' = td_steps + 1
    /\ td_run' = RunBroken
    /\ UNCHANGED td_age
    /\ UNCHANGED <<q_table, eligibility_traces, hyper>>

\* reset_traces()
ResetTraces ==
    /\ eligibility_traces' = <<>>
    /\ td_ret' = [op |-> "reset_traces"]
    /\ td_steps' = td_steps + 1
    /\ td_run' = RunBroken
    /\ UNCHANGED td_age
    /\ UNCHANGED <<q_table, hyper>>

\* export_q_table()
ExportQTable ==
    /\ \E out \in ExportOutcomes(q_table) : td_ret' = [op |-> "export_q_table", out |-> out]
    /\ td_steps' = td_steps + 1
    /\ td_run' = RunBroken
    /\ UNCHANGED td_age
    /\ UNCHANGED <<q_table, eligibility_traces, hyper>>

\* import_q_table(data)
ImportQTable(data) ==
    /\ q_table' = Imported(q_table, data)
    /\ td_ret' = [op |-> "import_q_table", data |-> data]
    /\ td_steps' = td_steps + 1
    /\ td_run' = RunBroken
    /\ UNCHANGED td_age
    /\ UNCHANGED <<eligibility_traces, hyper>>

\* the calls of one learner, MaxTDSteps of them
TDNext ==
    \/ \E state \in StateIds, action \in ActionIds, reward \in {<<-1, 1>>, <<1, 1>>},
          next_state \in StateIds, next_action \in {NoAction, <<"a">>} :
          /\ td_steps < MaxTDSteps
          /\ Update(state, action, reward, next_state, next_action)
          /\ UNCHANGED <<keVars, wmVars, ceVars, vecVars>>
    \/ \E state \in StateIds :
          td_steps < MaxTDSteps /\ GetMaxQCall(state) /\ UNCHANGED <<keVars, wmVars, ceVars, vecVars>>
    \/ \E state \in StateIds :
          td_steps < MaxTDSteps /\ GetBestAction(state) /\ UNCHANGED <<keVars, wmVars, ceVars, vecVars>>
    \/ td_steps < MaxTDSteps /\ ResetTraces /\ UNCHANGED <<keVars, wmVars, ceVars, vecVars>>
    \/ td_steps < MaxTDSteps /\ ExportQTable /\ UNCHANGED <<keVars, wmVars, ceVars, vecVars>>
    \/ \E data \in ImportData :
          td_steps < MaxTDSteps /\ ImportQTable(data) /\ UNCHANGED <<keVars, wmVars, ceVars, vecVars>>

\* number of update calls in a behaviour that follows the traces
MaxTraceSteps == 8

\* a learner that is only updated, with reward 0.0 toward its own state: the
\* Q-values stay 0.0 and the trace table moves as under any other reward
TDTraceNext ==
    \/ \E state \in StateIds, action \in ActionIds :
          /\ td_steps < MaxTraceSteps
          /\ Update(state, action, Zero, state, NoAction)
          /\ UNCHANGED <<keVars, wmVars, ceVars, vecVars>>
    \/ td_steps < MaxTraceSteps /\ ResetTraces /\ UNCHANGED <<keVars, wmVars, ceVars, vecVars>>

(***************************************************************************)
(* ClusterEngine (learning.rs 419-543)                                     *)
(*                                                                         *)
(* Embeddings are vectors in units of 1/VecOne, similarities in units of   *)
(* 1/SimOne and epsilon in units of 1/EpsOne.  Point indices and cluster   *)
(* ids count from 0 as in the source; sequences are indexed from 1.        *)
(***************************************************************************)
\* 1.0 of an epsilon
EpsOne == 100

\* largest min_points passed to new
MaxMinPoints == 3

\* longest batch drawn from Vectors
MaxBatchLen == 3

\* embeddings at cosine distances 0.04, 0.2 and 0.4 of each other, a zero
\* vector and a vector of another dimension
Vectors == {<<5, 0>>, <<4, 3>>, <<3, 4>>, <<0, 0>>, <<5>>}

\* three vectors of one direction followed by three that are pairwise
\* farther than 0.01 apart
ScenarioD == << <<5, 0>>, <<10, 0>>, <<5, 0>>, <<4, 3>>, <<3, 4>>, <<0, 5>> >>

\* every batch of up to MaxBatchLen of the Vectors, scenario D, and a batch
\* of two opposite points with three points between them, each at right
\* angles to both and more than a right angle from the other two
Batches ==
    UNION {[1..n -> Vectors] : n \in 0..MaxBatchLen}
       \cup {ScenarioD,
             << <<5, 0, 0>>, <<0, 5, 0>>, <<0, -3, 4>>, <<0, -3, -4>>, <<-5, 0, 0>> >>}

\* ClusterEngine::new, and no call made yet
CEInit ==
    /\ min_points \in 0..MaxMinPoints
    \* epsilon passed to new: -1.0, 0.01, 0.2, 1.0 or 3.0
    /\ \E e \in {-100, 1, 20, 100, 300} : epsilon = Clamp(e, 0, 2 * EpsOne)
    /\ embeddings = <<>>
    /\ ce_pc = "idle"
    /\ ce_i = 0
    /\ visited = <<>>
    /\ cluster_assignments = <<>>
    /\ clusters = <<>>
    /\ seeds = <<>>
    /\ cluster_points = <<>>
    /\ ce_prev = <<>>

\* the indices from j on that region_query(embs, index) keeps
RECURSIVE RegionQueryFrom(_, _, _, _)
RegionQueryFrom(eps, embs, index, j) ==
    IF j >= Len(embs) THEN <<>>
    ELSE (IF /\ j # index
             /\ (SimOne - CosineSimilarity(embs[index + 1], embs[j + 1])) * EpsOne
                   <= eps * SimOne
          THEN <<j>> ELSE <<>>)
         \o RegionQueryFrom(eps, embs, index, j + 1)

\* the neighbourhood with the point itself in it
RegionQuery_WithSelf(eps, embs, index) ==
    LET others == RegionQueryFrom(eps, embs, index, 0)
        before == SelectSeq(others, LAMBDA j : j < index)
        after  == SelectSeq(others, LAMBDA j : j > index)
    IN  before \o <<index>> \o after

\* region_query: the other points within epsilon of point `index`, ascending
RegionQuery(eps, embs, index) == RegionQueryFrom(eps, embs, index, 0)

\* sum of component c over the members, a missing component counting 0
RECURSIVE ComponentSum(_, _, _, _)
ComponentSum(embs, indices, c, k) ==
    IF k > Len(indices) THEN 0
    ELSE (IF c <= Len(embs[indices[k] + 1]) THEN embs[indices[k] + 1][c] ELSE 0)
         + ComponentSum(embs, indices, c, k + 1)

\* calculate_centroid indexes past `dim`: a member is longer than embeddings[0]
CentroidPanics(embs, indices) ==
    /\ indices # <<>> /\ embs # <<>>
    /\ \E k \in 1..Len(indices) : Len(embs[indices[k] + 1]) > Len(embs[1])

\* calculate_centroid: the mean of the members, normalized
CalculateCentroid(embs, indices) ==
    IF indices = <<>> \/ embs = <<>> THEN <<>>
    ELSE NormalizeVector([c \in 1..Len(embs[1]) |->
                             ComponentSum(embs, indices, c, 1) \div Len(indices)])

\* detect_clusters(batch) up to the for loop; an empty batch returns at once
DetectClusters(batch) ==
    /\ ce_pc \in {"idle", "done", "panicked"}
    /\ embeddings' = batch
    /\ ce_prev' = IF ce_pc = "done" /\ batch = embeddings THEN <<clusters>> ELSE <<>>
    /\ ce_pc' = IF batch = <<>> THEN "done" ELSE "loop"
    /\ ce_i' = 0
    /\ visited' = [j \in 1..Len(batch) |-> FALSE]
    /\ cluster_assignments' = [j \in 1..Len(batch) |-> -1]
    /\ clusters' = <<>>
    /\ seeds' = <<>>
    /\ cluster_points' = <<>>
    /\ UNCHANGED <<min_points, epsilon>>

\* a cluster started from every unvisited point, whatever its neighbourhood
NextPoint_NoThreshold ==
    /\ ce_pc = "loop" /\ ce_i < Len(embeddings)
    /\ \E neighbors \in {RegionQuery(epsilon, embeddings, ce_i)} :
          IF ~visited[ce_i + 1]
          THEN /\ seeds' = neighbors
               /\ cluster_points' = <<ce_i>>
               /\ visited' = [visited EXCEPT ![ce_i + 1] = TRUE]
               /\ cluster_assignments' =
                     [cluster_assignments EXCEPT ![ce_i + 1] = Len(clusters)]
               /\ ce_pc' = "expand"
               /\ UNCHANGED ce_i
          ELSE /\ ce_i' = ce_i + 1
               /\ UNCHANGED <<seeds, cluster_points, visited, cluster_assignments, ce_pc>>
    /\ UNCHANGED <<min_points, epsilon, embeddings, clusters, ce_prev>>

\* mutant: the point itself is counted among its neighbours
NextPoint_CountsSelf ==
    /\ ce_pc = "loop" /\ ce_i < Len(embeddings)
    /\ \E neighbors \in {RegionQuery(epsilon, embeddings, ce_i)} :
          IF ~visited[ce_i + 1] /\ Len(neighbors) + 1 >= min_points
          THEN /\ seeds' = neighbors
               /\ cluster_points' = <<ce_i>>
               /\ visited' = [visited EXCEPT ![ce_i + 1] = TRUE]
               /\ cluster_assignments' =
                     [cluster_assignments EXCEPT ![ce_i + 1] = Len(clusters)]
               /\ ce_pc' = "expand"
               /\ UNCHANGED ce_i
          ELSE /\ ce_i' = ce_i + 1
               /\ UNCHANGED <<seeds, cluster_points, visited, cluster_assignments, ce_pc>>
    /\ UNCHANGED <<min_points, epsilon, embeddings, clusters, ce_prev>>

\* one iteration of `for i in 0..n` up to the while loop
NextPoint ==
    /\ ce_pc = "loop" /\ ce_i < Len(embeddings)
    /\ \E neighbors \in {RegionQuery(epsilon, embeddings, ce_i)} :
          IF ~visited[ce_i + 1] /\ Len(neighbors) >= min_points
          THEN /\ seeds' = neighbors
               /\ cluster_points' = <<ce_i>>
               /\ visited' = [visited EXCEPT ![ce_i + 1] = TRUE]
               /\ cluster_assignments' =
                     [cluster_assignments EXCEPT ![ce_i + 1] = Len(clusters)]
               /\ ce_pc' = "expand"
               /\ UNCHANGED ce_i
          ELSE /\ ce_i' = ce_i + 1
               /\ UNCHANGED <<seeds, cluster_points, visited, cluster_assignments, ce_pc>>
    /\ UNCHANGED <<min_points, epsilon, embeddings, clusters, ce_prev>>

\* every popped seed pushed, assigned before or not
PopSeed_PushAlways ==
    /\ ce_pc = "expand" /\ seeds # <<>>
    /\ \E point \in {seeds[Len(seeds)]} :
       \E rest \in {SubSeq(seeds, 1, Len(seeds) - 1)} :
       \E point_neighbors \in {RegionQuery(epsilon, embeddings, point)} :
          /\ visited' = [visited EXCEPT ![point + 1] = TRUE]
          /\ seeds' = IF ~visited[point + 1] /\ Len(point_neighbors) >= min_points
                      THEN rest \o point_neighbors ELSE rest
          /\ cluster_assignments' =
                [cluster_assignments EXCEPT ![point + 1] = Len(clusters)]
          /\ cluster_points' = Append(cluster_points, point)
    /\ UNCHANGED <<min_points, epsilon, embeddings, ce_pc, ce_i, clusters, ce_prev>>

\* mutant: the neighbours of a core point are folded in at every pop of it
PopSeed_FoldsAlways ==
    /\ ce_pc = "expand" /\ seeds # <<>>
    /\ \E point \in {seeds[Len(seeds)]} :
       \E rest \in {SubSeq(seeds, 1, Len(seeds) - 1)} :
       \E point_neighbors \in {RegionQuery(epsilon, embeddings, point)} :
          /\ visited' = [visited EXCEPT ![point + 1] = TRUE]
          /\ seeds' = IF Len(point_neighbors) >= min_points
                      THEN rest \o point_neighbors ELSE rest
          /\ IF cluster_assignments[point + 1] = -1
             THEN /\ cluster_assignments' =
                        [cluster_assignments EXCEPT ![point + 1] = Len(clusters)]
                  /\ cluster_points' = Append(cluster_points, point)
             ELSE UNCHANGED <<cluster_assignments, cluster_points>>
    /\ UNCHANGED <<min_points, epsilon, embeddings, ce_pc, ce_i, clusters, ce_prev>>

\* one iteration of `while let Some(point) = seeds.pop()`
PopSeed ==
    /\ ce_pc = "expand" /\ seeds # <<>>
    /\ \E point \in {seeds[Len(seeds)]} :
       \E rest \in {SubSeq(seeds, 1, Len(seeds) - 1)} :
       \E point_neighbors \in {RegionQuery(epsilon, embeddings, point)} :
          /\ visited' = [visited EXCEPT ![point + 1] = TRUE]
          /\ seeds' = IF ~visited[point + 1] /\ Len(point_neighbors) >= min_points
                      THEN rest \o point_neighbors ELSE rest
          /\ IF cluster_assignments[point + 1] = -1
             THEN /\ cluster_assignments' =
                        [cluster_assignments EXCEPT ![point + 1] = Len(clusters)]
                  /\ cluster_points' = Append(cluster_points, point)
             ELSE UNCHANGED <<cluster_assignments, cluster_points>>
    /\ UNCHANGED <<min_points, epsilon, embeddings, ce_pc, ce_i, clusters, ce_prev>>

\* point_indices in either order, as if cluster_points were a set
PushCluster_AnyOrder ==
    /\ ce_pc = "expand" /\ seeds = <<>>
    /\ IF CentroidPanics(embeddings, cluster_points)
       THEN /\ ce_pc' = "panicked"
            /\ UNCHANGED <<clusters, ce_i, cluster_points>>
       ELSE /\ \E members \in {cluster_points,
                               [k \in 1..Len(cluster_points) |->
                                   cluster_points[Len(cluster_points) + 1 - k]]} :
                  clusters' = Append(clusters,
                                     [id |-> Len(clusters),
                                      point_indices |-> members,
                                      centroid |-> CalculateCentroid(embeddings, members),
                                      size |-> Len(members)])
            /\ ce_i' = ce_i + 1
            /\ cluster_points' = <<>>
            /\ ce_pc' = "loop"
    /\ UNCHANGED <<min_points, epsilon, embeddings, visited, cluster_assignments,
                   seeds, ce_prev>>

\* the end of the while loop: the centroid and clusters.push
PushCluster ==
    /\ ce_pc = "expand" /\ seeds = <<>>
    /\ IF CentroidPanics(embeddings, cluster_points)
       THEN /\ ce_pc' = "panicked"
            /\ UNCHANGED <<clusters, ce_i, cluster_points>>
       ELSE /\ clusters' = Append(clusters,
                                  [id |-> Len(clusters),
                                   point_indices |-> cluster_points,
                                   centroid |-> CalculateCentroid(embeddings, cluster_points),
                                   size |-> Len(cluster_points)])
            /\ ce_i' = ce_i + 1
            /\ cluster_points' = <<>>
            /\ ce_pc' = "loop"
    /\ UNCHANGED <<min_points, epsilon, embeddings, visited, cluster_assignments,
                   seeds, ce_prev>>

\* the end of the for loop: `clusters` is returned
ReturnClusters ==
    /\ ce_pc = "loop" /\ ce_i = Len(embeddings)
    /\ ce_pc' = "done"
    /\ UNCHANGED <<min_points, epsilon, embeddings, ce_i, visited, cluster_assignments,
                   clusters, seeds, cluster_points, ce_prev>>

\* the calls and steps of one engine: a first call on any batch, later calls
\* on the same batch again (the engine holds nothing of a call, so a later
\* call on another batch runs as a first call on it)
CENext ==
    \/ \E batch \in Batches :
          ce_pc = "idle" /\ DetectClusters(batch) /\ UNCHANGED <<keVars, wmVars, tdVars, vecVars>>
    \/ ce_pc # "idle" /\ DetectClusters(embeddings) /\ UNCHANGED <<keVars, wmVars, tdVars, vecVars>>
    \/ NextPoint /\ UNCHANGED <<keVars, wmVars, tdVars, vecVars>>
    \/ PopSeed /\ UNCHANGED <<keVars, wmVars, tdVars, vecVars>>
    \/ PushCluster /\ UNCHANGED <<keVars, wmVars, tdVars, vecVars>>
    \/ ReturnClusters /\ UNCHANGED <<keVars, wmVars, tdVars, vecVars>>

(***************************************************************************)
(* The components a specification leaves alone                             *)
(***************************************************************************)
WMIdle ==
    /\ entries = <<>>
    /\ max_capacity = 0
    /\ wm_ms = 0
    /\ wm_status = "ok"
    /\ wm_ret = [op |-> "none"]
    /\ wm_adds = <<>>

TDIdle ==
    /\ q_table = <<>>
    /\ eligibility_traces = <<>>
    /\ hyper = [alpha |-> Zero, gamma |-> Zero, lambda |-> Zero]
    /\ td_ret = [op |-> "none"]
    /\ td_steps = 0
    /\ td_run = EmptyRun
    /\ td_age = <<>>

KEIdle ==
    /\ patterns = <<>>
    /\ cache = <<>>
    /\ lock = 0
    /\ poisoned = FALSE
    /\ now = 0
    /\ pc = [t \in Threads |-> "idle"]
    /\ arg = [t \in Threads |-> NoArg]
    /\ results = [t \in Threads |-> <<>>]
    /\ last = NoCall

(***************************************************************************)
(* Claims about the KnowledgeEngine                                        *)
(***************************************************************************)
\* C1: under any interleaving of match_patterns and clear_cache calls by
\* concurrent callers, the cache never holds more than cache_max_size entries.
C1_CacheWithinCapacity == Cardinality(DOMAIN cache) <= CacheMaxSize

\* an insertion at capacity has evicted and completed while another caller is
\* inside a call
C1_Witness ==
    /\ last.op = "match" /\ ~last.hit /\ last.evicted # {}
    /\ Cardinality(DOMAIN cache) = CacheMaxSize
    /\ \E t \in Threads : pc[t] \in {"score", "set"}

\* C2: when match_patterns(q, k) is called again right after match_patterns(q, k)
\* returned, within the TTL, the lookup of the second call hits: the call
\* returns the list the first call returned, does not go on to scan and score,
\* and leaves the cache as it was.  "Within the TTL": the entry of the query
\* is not older than its TTL when the second call looks it up.
C2_RepeatServedFromCache ==
    [][\A t \in Threads :
          (/\ pc[t] = "get_locked"
           /\ pc'[t] # "get_locked"
           /\ IsRepeat(last, arg[t])
           /\ LET key == ComputeCacheKey(arg[t].query)
              IN  key \in DOMAIN cache => now - cache[key].created_at <= cache[key].ttl)
          => /\ pc'[t] = "idle"
             /\ results' = results
             /\ last'.hit
             /\ last'.out = last.out
             /\ cache' = cache]_vars

\* a repeated call has returned a non-empty list from the cache
C2_Witness == last.op = "match" /\ last.repeat /\ last.hit /\ last.out # <<>>

\* C3: with priorities in [0, 1], match_patterns returns at most top_k matches,
\* and every returned score and each of its four signals lies in [0, 1].
C3_AtMostTopKInUnitRange ==
    ((\A i \in 1..Len(patterns) : patterns[i].priority \in 0..PriorityOne)
        /\ last.op = "match")
    => /\ Len(last.out) <= last.top_k
       /\ \A i \in 1..Len(last.out) :
            /\ last.out[i].score \in 0..ScoreOne
            /\ last.out[i].signals.keyword_score \in 0..SignalOne
            /\ last.out[i].signals.error_code_score \in 0..SignalOne
            /\ last.out[i].signals.tag_score \in 0..SignalOne
            /\ last.out[i].signals.path_score \in 0..SignalOne

\* a computed list was cut to top_k, and a returned match has a raw match
\* count above the number of its pattern's keywords
C3_Witness ==
    /\ \A i \in 1..Len(patterns) : patterns[i].priority \in 0..PriorityOne
    /\ last.op = "match" /\ ~last.hit
    /\ last.top_k > 0 /\ Len(last.out) = last.top_k
    /\ Cardinality(ScoredMatches(patterns, last.query)) > last.top_k
    /\ \E i \in 1..Len(last.out) :
          /\ last.out[i].keyword_matches > 1
          /\ last.out[i].signals.keyword_score = SignalOne

\* C4: a lookup serves an entry only while now - created_at <= ttl; a lookup
\* that finds an expired entry sends the call on to recompute, and the
\* insertion that ends the call leaves a fresh entry under the key.
C4_NeverServedExpired ==
    [][\A t \in Threads :
          LET key == ComputeCacheKey(arg[t].query)
          IN  /\ (pc[t] = "get_locked" /\ pc'[t] = "idle")
                 => /\ key \in DOMAIN cache
                    /\ now - cache[key].created_at <= Ttl
                    /\ last'.hit /\ last'.age <= Ttl
                    /\ last'.out = Take(cache[key].value, arg[t].top_k)
              /\ (pc[t] = "get_locked" /\ pc'[t] # "get_locked"
                    /\ key \in DOMAIN cache /\ now - cache[key].created_at > Ttl)
                 => pc'[t] = "score"
              /\ (pc[t] = "set_locked" /\ pc'[t] = "idle")
                 => /\ key \in DOMAIN cache'
                    /\ cache'[key].created_at = now
                    /\ cache'[key].ttl = Ttl
                    /\ cache'[key].value = Take(results[t], 2 * arg[t].top_k)]_vars

\* a call has replaced an entry after the TTL of the first entries has passed
C4_Witness ==
    /\ last.op = "match" /\ ~last.hit /\ last.replaced
    /\ now > Ttl
    /\ cache[ComputeCacheKey(last.query)].created_at = now

\* C5: only an insertion removes entries, and only when the cache holds at least
\* cache_max_size entries: then every expired entry goes, and if the cache is
\* still at capacity exactly one more, one with the oldest created_at.  No
\* other entry changes; a lookup changes nothing.
C5_EvictionPolicy ==
    [][/\ \A t \in Threads :
            (pc[t] = "set_locked" /\ pc'[t] = "idle")
            => LET key     == ComputeCacheKey(arg[t].query)
                   ev      == last'.evicted
                   expired == {k \in DOMAIN cache : now - cache[k].created_at > cache[k].ttl}
                   rest    == DOMAIN cache \ expired
               IN  /\ IF Cardinality(DOMAIN cache) < CacheMaxSize THEN ev = {}
                      ELSE IF Cardinality(rest) < CacheMaxSize THEN ev = expired
                      ELSE \E k \in rest :
                              /\ \A j \in rest : cache[k].created_at <= cache[j].created_at
                              /\ ev = expired \cup {k}
                   /\ DOMAIN cache' = (DOMAIN cache \ ev) \cup {key}
                   /\ \A k \in DOMAIN cache' \ {key} : cache'[k] = cache[k]
       /\ cache' # cache => \E t \in Threads : pc[t] \in {"set_locked", "clear_locked"}]_vars

\* an insertion at capacity has removed an expired entry and kept a live one
C5_Witness ==
    /\ last.op = "match" /\ ~last.hit
    /\ Cardinality(last.evicted) = 1
    /\ Cardinality(DOMAIN cache) = CacheMaxSize
    /\ \E k \in DOMAIN cache : cache[k].created_at < now

(***************************************************************************)
(* Claims about the WorkingMemory                                          *)
(***************************************************************************)
\* C6: for every capacity WorkingMemory::new accepts, every add completes
\* without failing and leaves at most max_capacity entries; the entry added is
\* stored, and when the store was full exactly one entry stored before the
\* call is gone.
C6_AddKeepsCapacity ==
    [][\A e \in EntryCatalog :
          (wm_ret'.op = "add" /\ Add(e))
                 => /\ wm_status' = "ok"
                    /\ Len(entries') <= max_capacity
                    /\ Len(entries') >= 1
                    /\ entries'[Len(entries')] = Stamped(e)
                    /\ IF Len(entries) >= max_capacity
                       THEN \E i \in 1..Len(entries) :
                               entries' = Append(RemoveAt(entries, i), Stamped(e))
                       ELSE entries' = Append(entries, Stamped(e))]_vars

\* C7: after N + 1 adds into an empty store of capacity N >= 1, the first of
\* importance 0.0 and the others of distinct positive importances, with no
\* other call in between and whatever the clock reads at each add, exactly N
\* entries remain and none of them has importance 0.0.
C7_ZeroImportanceEvicted ==
    (/\ max_capacity >= 1
     /\ wm_adds # AddsBroken
     /\ Len(wm_adds) = max_capacity + 1
     /\ wm_adds[1] = 0
     /\ \A i \in 2..Len(wm_adds) : wm_adds[i] > 0
     /\ \A i, j \in 2..Len(wm_adds) : i # j => wm_adds[i] # wm_adds[j])
    => /\ Len(entries) = max_capacity
       /\ \A i \in 1..Len(entries) : entries[i].importance # 0

\* the scenario with all adds in the same millisecond, for a capacity above 1
C7_Witness ==
    /\ max_capacity >= 2
    /\ wm_adds # AddsBroken
    /\ Len(wm_adds) = max_capacity + 1
    /\ wm_adds[1] = 0
    /\ \A i \in 2..Len(wm_adds) : wm_adds[i] > 0
    /\ \A i, j \in 2..Len(wm_adds) : i # j => wm_adds[i] # wm_adds[j]
    /\ wm_ms = 0
    /\ wm_ret.op = "add" /\ wm_ret.evicted # <<>>

\* C8: similarity_search returns at most top_k results in non-increasing order
\* of similarity; exactly the entries it returns get last_access = now and
\* access_count + 1, every other entry and the order of the store stay as they
\* were; on an empty store or an empty query it returns nothing and changes
\* nothing.
C8_SearchTouchesReturnedOnly ==
    [][(wm_ret'.op = "search" /\ SimilaritySearch(wm_ret'.query, wm_ret'.top_k))
          => LET out      == wm_ret'.out
                 query    == wm_ret'.query
                 top_k    == wm_ret'.top_k
                 returned == {out[i].index + 1 : i \in 1..Len(out)}
             IN  /\ Len(out) <= top_k
                 /\ \A i, j \in 1..Len(out) :
                       i < j => /\ out[i].similarity >= out[j].similarity
                                /\ out[i].index # out[j].index
                 /\ returned \subseteq 1..Len(entries)
                 /\ \A i \in 1..Len(out) : out[i].id = entries[out[i].index + 1].id
                 /\ Len(entries') = Len(entries)
                 /\ \A i \in 1..Len(entries) :
                       entries'[i] = IF i \in returned
                                     THEN [entries[i] EXCEPT
                                             !.last_access_ms = wm_ms,
                                             !.access_count = entries[i].access_count + 1]
                                     ELSE entries[i]
                 /\ (entries = <<>> \/ query = <<>>) => (out = <<>> /\ entries' = entries)]_vars

\* a search has returned one of two stored entries of different similarity, some
\* time after they were added
C8_Witness ==
    /\ wm_ret.op = "search"
    /\ Len(wm_ret.out) = 1
    /\ Len(entries) = 2
    /\ wm_ret.out[1].similarity > 0
    /\ wm_ms > 0
    /\ \E i, j \in 1..2 :
          /\ wm_ret.out[1].index = i - 1
          /\ entries[i].access_count = 2 /\ entries[i].last_access_ms = wm_ms
          /\ entries[j].access_count = 1 /\ entries[j].last_access_ms < wm_ms

(***************************************************************************)
(* Claims about the TDLearner                                              *)
(***************************************************************************)
\* C9: get_max_q(state) returns the greatest Q-value among the (state, action)
\* pairs recorded for that state, whatever the sign of the recorded values,
\* and 0.0 when no action is recorded for the state.
C9_MaxQIsRecordedMax ==
    td_ret.op = "get_max_q" =>
        IF KeysOf(q_table, td_ret.state) = {}
        THEN td_ret.out = Zero
        ELSE /\ \E k \in KeysOf(q_table, td_ret.state) : td_ret.out = q_table[k]
             /\ \A k \in KeysOf(q_table, td_ret.state) : ~FGt(q_table[k], td_ret.out)

\* C10: import_q_table ignores every key that does not hold exactly one '|'
\* (none, or two or more) and imports every key with exactly one '|' as the
\* pair (state id, action id): afterwards the Q-table is the old one overridden
\* by the pairs of the keys with exactly one separator, and by nothing else.
C10_ImportExactlyOneSeparator ==
    [][(td_ret'.op = "import_q_table" /\ ImportQTable(td_ret'.data))
          => LET data    == td_ret'.data
                 wellKey == {key \in DOMAIN data :
                                Cardinality({i \in 1..Len(key) : key[i] = "|"}) = 1}
                 pairOf(key) == <<SubSeq(key, 1, FirstSep(key) - 1),
                                  SubSeq(key, FirstSep(key) + 1, Len(key))>>
             IN  /\ DOMAIN q_table' = DOMAIN q_table \cup {pairOf(key) : key \in wellKey}
                 /\ \A key \in wellKey : q_table'[pairOf(key)] = data[key]
                 /\ \A p \in DOMAIN q_table \ {pairOf(key) : key \in wellKey} :
                       q_table'[p] = q_table[p]]_vars

\* C11: when no state id and no action id of the Q-table holds a '|', importing
\* the map export_q_table returned into a fresh learner (an empty Q-table)
\* gives the exported Q-table back: the same pairs with the same values.
C11_ExportImportRoundTrip ==
    (/\ td_ret.op = "export_q_table"
     /\ \A k \in DOMAIN q_table :
           \A i \in 1..2 : \A j \in 1..Len(k[i]) : k[i][j] # "|")
    => /\ DOMAIN Imported(<<>>, td_ret.out) = DOMAIN q_table
       /\ \A k \in DOMAIN q_table :
             GetQ(Imported(<<>>, td_ret.out), k[1], k[2]) = q_table[k]

\* a table of two pairs of one state with different values, one of them
\* negative, has been exported
C11_Witness ==
    /\ td_ret.op = "export_q_table"
    /\ Cardinality(DOMAIN td_ret.out) = 2
    /\ \E k, m \in DOMAIN q_table :
          /\ k[1] = m[1] /\ k[2] # m[2]
          /\ FGt(Zero, q_table[k]) /\ FGt(q_table[m], Zero)
    /\ \A k \in DOMAIN q_table :
          \A i \in 1..2 : \A j \in 1..Len(k[i]) : k[i][j] # "|"

\* C12: starting from an empty learner, for every alpha, gamma and lambda in
\* [0, 1], repeating update(s, a, reward = 1.0, next_state, None) drives Q(s, a)
\* monotonically toward a positive fixed point: Q(s, a) is positive after the
\* first call, never decreases from one call to the next, and there is a
\* positive value the update leaves unchanged, which Q(s, a) never exceeds.
\* (The update leaves Q(s, a) = F unchanged iff 1 + gamma * next_q - F = 0,
\* with next_q = 0 when next_state differs from s and next_q = F otherwise.)
C12_RepeatedUpdatesApproachFixedPoint ==
    (/\ td_run.n >= 1
     /\ td_run.call.reward = One
     /\ td_run.call.next_action = NoAction)
    => LET qs   == td_run.qs
           self == td_run.call.next_state = td_run.call.state
       IN  /\ FGt(qs[1], Zero)
           /\ \A i \in 1..(Len(qs) - 1) : ~FGt(qs[i], qs[i + 1])
           /\ (~self) \/ FGt(One, hyper.gamma)
           /\ \A i \in 1..Len(qs) :
                 ~FGt(qs[i], IF self THEN Frac(hyper.gamma[2], hyper.gamma[2] - hyper.gamma[1])
                                     ELSE One)

\* C12, amended: the same for alpha in (0, 1]; the fixed point is 1 when
\* next_state differs from s and 1 / (1 - gamma) when next_state is s and
\* gamma < 1, and Q(s, a) never exceeds it; with next_state = s and gamma = 1
\* there is none, and Q(s, a) still is positive and never decreases.
C12_RepeatedUpdatesWithLearning ==
    (/\ td_run.n >= 1
     /\ td_run.call.reward = One
     /\ td_run.call.next_action = NoAction
     /\ FGt(hyper.alpha, Zero))
    => LET qs   == td_run.qs
           self == td_run.call.next_state = td_run.call.state
       IN  /\ FGt(qs[1], Zero)
           /\ \A i \in 1..(Len(qs) - 1) : ~FGt(qs[i], qs[i + 1])
           /\ ((~self) \/ FGt(One, hyper.gamma))
              => \A i \in 1..Len(qs) :
                    ~FGt(qs[i], IF self THEN Frac(hyper.gamma[2], hyper.gamma[2] - hyper.gamma[1])
                                        ELSE One)

\* three identical calls with next_state = s, 0 < gamma < 1 and alpha > 0 have
\* raised Q(s, a) at every call
C12_Witness ==
    /\ td_run.n >= 3
    /\ td_run.call.reward = One
    /\ td_run.call.next_action = NoAction
    /\ td_run.call.next_state = td_run.call.state
    /\ FGt(hyper.alpha, Zero)
    /\ FGt(One, hyper.gamma) /\ FGt(hyper.gamma, Zero)
    /\ FGt(td_run.qs[2], td_run.qs[1]) /\ FGt(td_run.qs[3], td_run.qs[2])

\* C13: reset_traces empties the eligibility-trace table and leaves every
\* Q-value as it was; the update that follows reset_traces reports
\* states_updated = 1 and changes no Q-value but that of its own (state, action).
C13_ResetThenOneStepUpdate ==
    [][/\ ResetTraces => (eligibility_traces' = <<>> /\ q_table' = q_table)
       /\ (td_ret.op = "reset_traces" /\ td_ret'.op = "update")
          => /\ td_ret'.states_updated = 1
             /\ DOMAIN q_table' = DOMAIN q_table \cup {td_ret'.key}
             /\ \A k \in DOMAIN q_table \ {td_ret'.key} : q_table'[k] = q_table[k]]_vars

\* with gamma * lambda = 1 (traces never decay) a pair was updated, the traces
\* were reset, and the update of another pair has left the first pair's value
\* (1/2, which no import sets) out of the trace table
C13_Witness ==
    /\ hyper.gamma = One /\ hyper.lambda = One
    /\ td_ret.op = "update" /\ td_ret.states_updated = 1
    /\ DOMAIN eligibility_traces = {td_ret.key}
    /\ \E k \in DOMAIN q_table : k # td_ret.key /\ q_table[k] = <<1, 2>>

\* C14 as stated: whatever the hyperparameters in [0, 1], a pair that is not
\* updated again leaves the trace table after a bounded number of further
\* update calls.  The bound is taken as 6 calls, which is what the threshold
\* 0.01 gives the slowest decay of the model below 1.0 (gamma * lambda = 0.5):
\* no pair of the trace table is 6 or more update calls old.
C14_TracesDroppedForEverySetting ==
    \A k \in DOMAIN eligibility_traces : td_age[k] < 6

\* C14, amended: when gamma * lambda < 1, a pair that is not updated again has
\* left the trace table after N further update calls, N the least number with
\* (gamma * lambda)^(N + 1) <= 0.01: every pair of the trace table is less
\* than N update calls old, so the table never holds more than N pairs.
C14_TracesDroppedWhenDecaying ==
    \A gl \in {FMul(hyper.gamma, hyper.lambda)} :
        FGt(One, gl) =>
            \A N \in {j \in 0..6 :
                         /\ 100 * gl[1]^(j + 1) <= gl[2]^(j + 1)
                         /\ \A i \in 0..(j - 1) : 100 * gl[1]^(i + 1) > gl[2]^(i + 1)} :
                /\ \A k \in DOMAIN eligibility_traces : td_age[k] < N
                /\ Cardinality(DOMAIN eligibility_traces) <= N

\* gamma * lambda = 0.5: after an update, one pair is 5 update calls old and
\* still traced, another is 6 calls old and no longer traced
C14_Witness ==
    /\ FMul(hyper.gamma, hyper.lambda) = <<1, 2>>
    /\ td_ret.op = "update"
    /\ \E k \in DOMAIN eligibility_traces : td_age[k] = 5
    /\ \E k \in DOMAIN td_age \ DOMAIN eligibility_traces : td_age[k] = 6

\* C15: a batch of n >= 1 copies of one non-zero embedding, clustered with
\* min_points <= n, comes back as exactly one cluster that holds all n indices.
C15_IdenticalPointsOneCluster ==
    (/\ ce_pc = "done"
     /\ Len(embeddings) >= 1
     /\ \A j \in 1..Len(embeddings) : embeddings[j] = embeddings[1]
     /\ Norm(embeddings[1]) > 0
     /\ min_points <= Len(embeddings))
    => /\ Len(clusters) = 1
       /\ Len(clusters[1].point_indices) = Len(embeddings)
       /\ {clusters[1].point_indices[k] : k \in 1..Len(embeddings)}
             = 0..(Len(embeddings) - 1)

\* C16: in what detect_clusters returns, no index is in two clusters or twice
\* in one, every size is the length of point_indices, and the ids are
\* 0, 1, 2, ... in output order.
C16_ClustersDisjointAndNumbered ==
    ce_pc = "done" =>
        \A c \in 1..Len(clusters) :
            /\ clusters[c].id = c - 1
            /\ clusters[c].size = Len(clusters[c].point_indices)
            /\ \A k, m \in 1..Len(clusters[c].point_indices) :
                  k # m => clusters[c].point_indices[k] # clusters[c].point_indices[m]
            /\ \A d \in 1..Len(clusters) :
                  d # c =>
                     \A k \in 1..Len(clusters[c].point_indices),
                        m \in 1..Len(clusters[d].point_indices) :
                        clusters[c].point_indices[k] # clusters[d].point_indices[m]

\* two clusters are returned, one of them with three points, each of which
\* was in the seeds of the others
C16_Witness ==
    /\ ce_pc = "done"
    /\ Len(clusters) >= 2
    /\ \E c \in 1..Len(clusters) : clusters[c].size >= 3

\* C17 as stated: a point with fewer than min_points other points within
\* epsilon is in the point_indices of no returned cluster.
C17_SparsePointsUnassigned ==
    ce_pc = "done" =>
        \A p \in 0..(Len(embeddings) - 1) :
            Len(RegionQuery(epsilon, embeddings, p)) < min_points
            => \A c \in 1..Len(clusters) :
                  \A k \in 1..Len(clusters[c].point_indices) :
                     clusters[c].point_indices[k] # p

\* C17, amended: a point with fewer than min_points other points within
\* epsilon, none of which has min_points or more points within epsilon itself,
\* is in the point_indices of no returned cluster.
C17_NoisePointsUnassigned ==
    ce_pc = "done" =>
        \A p \in 0..(Len(embeddings) - 1) :
            \A near \in {RegionQuery(epsilon, embeddings, p)} :
                (/\ Len(near) < min_points
                 /\ \A j \in 1..Len(near) :
                       Len(RegionQuery(epsilon, embeddings, near[j])) < min_points)
                => \A c \in 1..Len(clusters) :
                      \A k \in 1..Len(clusters[c].point_indices) :
                         clusters[c].point_indices[k] # p

\* a cluster is returned, and a point that has a neighbour, but fewer than
\* min_points and none of them dense, is in no cluster
C17_Witness ==
    /\ ce_pc = "done"
    /\ Len(clusters) >= 1
    /\ \E p \in 0..(Len(embeddings) - 1) :
       \E near \in {RegionQuery(epsilon, embeddings, p)} :
          /\ 0 < Len(near) /\ Len(near) < min_points
          /\ \A j \in 1..Len(near) :
                Len(RegionQuery(epsilon, embeddings, near[j])) < min_points
          /\ \A c \in 1..Len(clusters) :
                \A k \in 1..Len(clusters[c].point_indices) :
                   clusters[c].point_indices[k] # p

\* C18 as stated: every point with at least min_points other points within
\* epsilon is in exactly one returned cluster; with min_points = 2 the three
\* vectors of one direction of scenario D are together in a returned cluster;
\* and a point with no other point within epsilon is in no returned cluster.
C18_CorePointsClustered ==
    ce_pc = "done" =>
        LET n == Len(embeddings)
            Within(p) ==
                {j \in 0..(n - 1) :
                    /\ j # p
                    /\ (SimOne - CosineSimilarity(embeddings[p + 1], embeddings[j + 1]))
                          * EpsOne <= epsilon * SimOne}
            Places(p) ==
                {ck \in (1..Len(clusters)) \X (1..n) :
                    /\ ck[2] <= Len(clusters[ck[1]].point_indices)
                    /\ clusters[ck[1]].point_indices[ck[2]] = p}
        IN  /\ \A p \in 0..(n - 1) :
                  Cardinality(Within(p)) >= min_points => Cardinality(Places(p)) = 1
            /\ (embeddings = ScenarioD /\ min_points = 2)
                  => \E c \in 1..Len(clusters) :
                        {0, 1, 2} \subseteq {clusters[c].point_indices[k] :
                                               k \in 1..Len(clusters[c].point_indices)}
            /\ \A p \in 0..(n - 1) : Within(p) = {} => Places(p) = {}

\* C18, amended: as stated, the last part for min_points >= 1 only (with
\* min_points = 0 every point is a core point and seeds a cluster).
C18_CorePointsClusteredIsolatedNot ==
    ce_pc = "done" =>
        LET n == Len(embeddings)
            Within(p) ==
                {j \in 0..(n - 1) :
                    /\ j # p
                    /\ (SimOne - CosineSimilarity(embeddings[p + 1], embeddings[j + 1]))
                          * EpsOne <= epsilon * SimOne}
            Places(p) ==
                {ck \in (1..Len(clusters)) \X (1..n) :
                    /\ ck[2] <= Len(clusters[ck[1]].point_indices)
                    /\ clusters[ck[1]].point_indices[ck[2]] = p}
        IN  /\ \A p \in 0..(n - 1) :
                  Cardinality(Within(p)) >= min_points => Cardinality(Places(p)) = 1
            /\ (embeddings = ScenarioD /\ min_points = 2)
                  => \E c \in 1..Len(clusters) :
                        {0, 1, 2} \subseteq {clusters[c].point_indices[k] :
                                               k \in 1..Len(clusters[c].point_indices)}
            /\ min_points >= 1
                  => \A p \in 0..(n - 1) : Within(p) = {} => Places(p) = {}

\* scenario D with min_points = 2 and epsilon = 0.01: one cluster of the three
\* vectors of one direction is returned, the other three points are in none
C18_Witness ==
    /\ ce_pc = "done"
    /\ embeddings = ScenarioD
    /\ min_points = 2
    /\ epsilon = 1
    /\ Len(clusters) = 1
    /\ clusters[1].size = 3
    /\ {clusters[1].point_indices[k] : k \in 1..3} = {0, 1, 2}

C20_EqualScoresSameOrder ==
    [][(/\ last.op = "match" /\ ~last.hit
        /\ last'.op = "match" /\ ~last'.hit
        /\ last'.query = last.query
        /\ last'.top_k = last.top_k)
       => last'.out = last.out]_vars

\* C21: the raw match counter of a pattern is the number of occurrences, in
\* the lowercased query text, of the keywords the pattern owns, overlapping
\* and nested occurrences included; a pattern none of whose keywords occurs
\* has no counter and is not returned.
C21_EveryOccurrenceCounted ==
    \A t \in Threads :
        pc[t] = "set" =>
            LET text == ToLowercase(arg[t].query.text)
                Occurrences(kw) ==
                    Cardinality({pos \in 1..Len(text) : HasAt(text, pos, kw)})
                Owned(i) == LowerSet(patterns[i].keywords)
                Expected(i) ==
                    SumSeq([j \in 1..Len(AllKeywords(patterns)) |->
                               IF AllKeywords(patterns)[j] \in Owned(i)
                               THEN Occurrences(AllKeywords(patterns)[j]) ELSE 0])
            IN  \A i \in 1..Len(patterns) :
                    /\ \A m \in 1..Len(results[t]) :
                          results[t][m].pattern_id = patterns[i].id
                          => results[t][m].keyword_matches = Expected(i)
                    /\ (Expected(i) > 0 /\ patterns[i].priority > 0)
                          => \E m \in 1..Len(results[t]) :
                                results[t][m].pattern_id = patterns[i].id

\* C22: in the list match_patterns computes, every match has the score
\* (0.40 keyword + 0.25 error_code + 0.20 tag + 0.15 path) * priority of its
\* pattern, with keyword = min(1, raw match count / number of keywords of the
\* pattern, each counted once whatever its case); a pattern with a keyword
\* occurrence is in the list unless its score is 0, no match of score 0 is in
\* the list, the scores do not increase along the list, and in scenario A the
\* first match is pat1 with a score above 0.5.
C22_ScoresWeightedAndSorted ==
    \A t \in Threads :
        pc[t] = "set" =>
            LET q == arg[t].query
                r == results[t]
                PatternOf(id) == CHOOSE i \in 1..Len(patterns) : patterns[i].id = id
            IN  /\ \A m \in 1..Len(r) :
                      LET pat == patterns[PatternOf(r[m].pattern_id)]
                          nkw == Cardinality({ToLowercase(k) : k \in Range(pat.keywords)})
                          kw  == (r[m].keyword_matches * SignalOne) \div nkw
                      IN  /\ r[m].keyword_matches > 0
                          /\ r[m].signals.keyword_score = IF kw > SignalOne THEN SignalOne ELSE kw
                          /\ r[m].score = (40 * r[m].signals.keyword_score
                                             + 25 * r[m].signals.error_code_score
                                             + 20 * r[m].signals.tag_score
                                             + 15 * r[m].signals.path_score) * pat.priority
                          /\ r[m].score > 0
                          /\ m < Len(r) => r[m].score >= r[m + 1].score
                /\ \A i \in 1..Len(patterns) :
                      (KeywordMatches(patterns, q, i) > 0 /\ patterns[i].priority > 0)
                      => \E m \in 1..Len(r) : r[m].pattern_id = patterns[i].id
                /\ (patterns = ScenarioAPatterns /\ q = ScenarioAQuery)
                      => /\ r # <<>>
                         /\ r[1].pattern_id = "pat1"
                         /\ 2 * r[1].score > ScoreOne

\* scenario A has been scored: pat1 is the only match, with score 0.765, and
\* pat0, whose keyword occurs too, has been dropped with score 0
C22_Witness ==
    /\ pc[1] = "set"
    /\ patterns = ScenarioAPatterns
    /\ arg[1].query = ScenarioAQuery
    /\ Len(results[1]) = 1
    /\ results[1][1].pattern_id = "pat1"
    /\ results[1][1].score * 1000 = 765 * ScoreOne
    /\ KeywordMatches(patterns, arg[1].query, 2) > 0

\* C23: no call of match_patterns panics, whatever the query and top_k; and a
\* call whose query text is empty, whose engine has no pattern, or whose text
\* holds no keyword returns the empty list.
C23_NeverPanicsEmptyOnNoMatch ==
    /\ \A t \in Threads : pc[t] # "panicked"
    /\ (/\ last.op = "match"
        /\ \/ last.query.text = <<>>
           \/ patterns = <<>>
           \/ \A i \in 1..Len(patterns) : KeywordMatches(patterns, last.query, i) = 0)
       => last.out = <<>>

\* C24: cosine_similarity returns exactly 0.0 when the lengths differ, when
\* the vectors are empty or when one of them is all zeros; in every other
\* case its value lies in [-1, 1]; and the value for (a, b) is the value for
\* (b, a).
C24_CosineZeroBoundedSymmetric ==
    vec_ret.op = "cosine_similarity" =>
        LET a == vec_args[1]
            b == vec_args[2]
            AllZero(v) == \A i \in 1..Len(v) : v[i] = 0
        IN  /\ (Len(a) # Len(b) \/ Len(a) = 0 \/ AllZero(a) \/ AllZero(b))
                  => vec_ret.value = 0
            /\ vec_ret.value \in -SimOne..SimOne
            /\ vec_ret.value = CosineSimilarity(b, a)

\* C25: once the cache mutex is poisoned, no call changes the cache (so
\* match_patterns stores nothing and clear_cache is a no-op), a returning
\* match_patterns was not served from the cache and returns the first top_k
\* matches of a scoring of its query, a returning cache_stats reports (0, 0),
\* and no call panics.
C25_PoisonedLockIsCacheMiss ==
    [][poisoned =>
          /\ cache' = cache
          /\ \A t \in Threads : pc'[t] # "panicked"
          /\ (last' # last /\ last'.op = "match")
                => /\ ~last'.hit
                   /\ \E r \in SortedResults(patterns, last'.query) :
                          last'.out = Take(r, last'.top_k)
          /\ (last' # last /\ last'.op = "cache_stats") => last'.out = <<0, 0>>]_vars

\* the mutex is poisoned while the cache holds a live entry for a query; a
\* call with that query has computed and returned its match without storing
\* it, and the cache still holds the entry
C25_Witness ==
    /\ poisoned
    /\ last.op = "match"
    /\ last.out # <<>>
    /\ ~last.hit
    /\ ~last.stored
    /\ ComputeCacheKey(last.query) \in DOMAIN cache
    /\ ~IsExpired(cache[ComputeCacheKey(last.query)], now)

\* C26: a caller is inside cache_get's lookup, cache_set's eviction and
\* insertion or clear_cache's clearing exactly while it holds the mutex, so
\* no two callers are inside at once and no caller holds the mutex while it
\* scans and scores; the cache changes only in a step of the holder that
\* completes the eviction and insertion (or the clearing) and releases the
\* mutex, so no other caller sees a map between eviction and insertion.
C26_CacheAccessUnderMutex ==
    [][/\ \A t \in Threads :
             (pc[t] \in {"get_locked", "set_locked", "clear_locked"}) <=> (lock = t)
       /\ \A t \in Threads :
             (pc'[t] \in {"get_locked", "set_locked", "clear_locked"}) <=> (lock' = t)
       /\ \A t \in Threads : pc[t] \in {"score", "set"} => lock # t
       /\ cache' # cache =>
             /\ lock \in Threads
             /\ pc[lock] \in {"set_locked", "clear_locked"}
             /\ pc'[lock] = "idle"
             /\ lock' = 0
       /\ \A t \in Threads :
             (last' # last /\ pc[t] = "get_locked" /\ pc'[t] = "idle")
                => /\ lock = t
                   /\ ComputeCacheKey(last'.query) \in DOMAIN cache
                   /\ last'.out = Take(cache[ComputeCacheKey(last'.query)].value, last'.top_k)]_vars

\* two callers have missed on the same key and both have computed the
\* result; one of them is storing it while the other waits for the mutex
C26_Witness ==
    /\ pc[1] = "set_locked"
    /\ pc[2] = "set"
    /\ lock = 1
    /\ arg[1].query = arg[2].query
    /\ results[1] # <<>>
    /\ results[2] # <<>>

\* C27: an update returns td_error = reward + gamma * next_value - Q(state,
\* action), with Q(state, action) read before the update (0 if unseen);
\* next_value is Q(next_state, next_action) when next_action is given, and
\* otherwise the greatest Q over the actions recorded for next_state, or 0.0
\* when none is recorded.
C27_TdErrorFormula ==
    [][(td_ret'.op = "update" /\ td_steps' = td_steps + 1) =>
          LET r == td_ret'
              recorded == {q_table[k] : k \in {m \in DOMAIN q_table : m[1] = r.next_state}}
              next_value ==
                  IF r.next_action # NoAction
                  THEN (IF <<r.next_state, r.next_action>> \in DOMAIN q_table
                        THEN q_table[<<r.next_state, r.next_action>>] ELSE Zero)
                  ELSE IF recorded = {} THEN Zero
                  ELSE CHOOSE v \in recorded : \A w \in recorded : ~FGt(w, v)
              current_q == IF r.key \in DOMAIN q_table THEN q_table[r.key] ELSE Zero
          IN  r.td_error = FSub(FAdd(r.reward, FMul(hyper.gamma, next_value)), current_q)]_vars

\* C28: an update puts the trace of its pair at exactly 1.0, adds alpha *
\* td_error * trace to the Q-value of exactly the pairs whose trace is then
\* above 0.01 and leaves every other Q-value as it was, multiplies every
\* trace by gamma * lambda and keeps the traces above 0.01; it returns the
\* new Q-value of its pair, td_error, and the number of pairs adjusted,
\* which is at least 1.
C28_UpdateTracesAndQ ==
    [][(td_ret'.op = "update" /\ td_steps' = td_steps + 1) =>
          \E r \in {td_ret'} :
          \E traced \in {[m \in DOMAIN eligibility_traces \cup {r.key} |->
                             IF m = r.key THEN <<1, 1>> ELSE eligibility_traces[m]]} :
          \E adjusted \in {{m \in DOMAIN traced : FGt(traced[m], <<1, 100>>)}} :
          \E decayed \in {[m \in DOMAIN traced |->
                              FMul(traced[m], FMul(hyper.gamma, hyper.lambda))]} :
          \E step \in {FMul(hyper.alpha, r.td_error)} :
              /\ r.key \in adjusted
              /\ DOMAIN q_table' = DOMAIN q_table \cup adjusted
              /\ \A m \in adjusted :
                    q_table'[m] = FAdd(IF m \in DOMAIN q_table THEN q_table[m] ELSE <<0, 1>>,
                                       FMul(step, traced[m]))
              /\ \A m \in DOMAIN q_table \ adjusted : q_table'[m] = q_table[m]
              /\ DOMAIN eligibility_traces' =
                    {m \in DOMAIN decayed : FGt(decayed[m], <<1, 100>>)}
              /\ \A m \in DOMAIN eligibility_traces' : eligibility_traces'[m] = decayed[m]
              /\ r.new_q_value = q_table'[r.key]
              /\ r.states_updated = Cardinality(adjusted)
              /\ r.states_updated >= 1]_vars

\* an update with a non-zero td_error and learning rate has adjusted its own
\* pair and one more traced pair and has left a third Q-value alone, and
\* its pair now carries the trace gamma * lambda
C28_Witness ==
    /\ td_ret.op = "update"
    /\ td_ret.states_updated = 2
    /\ td_ret.td_error # Zero
    /\ hyper.alpha # Zero
    /\ Cardinality(DOMAIN q_table) = 3
    /\ td_ret.key \in DOMAIN eligibility_traces
    /\ eligibility_traces[td_ret.key] = FMul(hyper.gamma, hyper.lambda)
    /\ td_age[td_ret.key] = 0

\* C29: get_best_action(state) returns none exactly when the Q-table records
\* no action for the state, and otherwise an action recorded for the state
\* whose Q-value no other action recorded for the state exceeds; the call
\* leaves the Q-table, the traces and the hyperparameters as they were.
C29_BestActionIsArgmax ==
    [][(td_ret'.op = "get_best_action" /\ td_steps' = td_steps + 1) =>
          LET r == td_ret'
              recorded == {k \in DOMAIN q_table : k[1] = r.state}
          IN  /\ (r.out = NoAction) <=> (recorded = {})
              /\ recorded # {} =>
                    \E k \in recorded :
                        /\ k[2] = r.out
                        /\ \A o \in recorded : ~FGt(q_table[o], q_table[k])
              /\ q_table' = q_table
              /\ eligibility_traces' = eligibility_traces
              /\ hyper' = hyper]_vars

\* get_best_action has returned an action of a state for which the Q-table
\* records two actions of different value, and the table still holds both
C29_Witness ==
    /\ td_ret.op = "get_best_action"
    /\ td_ret.out # NoAction
    /\ \E k \in DOMAIN q_table, o \in DOMAIN q_table :
          /\ k[1] = td_ret.state
          /\ o[1] = td_ret.state
          /\ k[2] = td_ret.out
          /\ FGt(q_table[k], q_table[o])

\* C30: whatever calls came before, the list match_patterns(q, k) returns is
\* the first k elements (all of them if there are fewer) of a full list of
\* the matches of q sorted by score, whether the call was answered from the
\* cache or not.
C30_CachedEqualsUncached ==
    last.op = "match" =>
        \E r \in SortedResults(patterns, last.query) : last.out = Take(r, last.top_k)

\* C31: when add evicts, the entry removed is the first of those whose
\* last_access * importance * ln(1 + access_count) is least among the entries
\* stored before the call; it is accessed no later than any stored entry of
\* the same importance and access count; and no stored entry is older, less
\* important and less accessed than it.
C31_EvictsLeastValuable ==
    [][(wm_ret'.op = "add" /\ ~wm_ret'.panic /\ wm_ret'.evicted # <<>>
        /\ Len(entries') = Len(entries) /\ entries' # entries) =>
          \E ev \in {wm_ret'.evicted[1]} :
              /\ \E i \in 1..Len(entries) :
                    /\ entries[i] = ev
                    /\ SubSeq(entries', 1, Len(entries) - 1)
                          = [j \in 1..(Len(entries) - 1) |->
                                IF j < i THEN entries[j] ELSE entries[j + 1]]
                    /\ \A j \in 1..Len(entries) :
                          ev.last_access_ms * ev.importance * Ln1p(ev.access_count)
                             <= entries[j].last_access_ms * entries[j].importance
                                   * Ln1p(entries[j].access_count)
                    /\ \A j \in 1..(i - 1) :
                          ev.last_access_ms * ev.importance * Ln1p(ev.access_count)
                             < entries[j].last_access_ms * entries[j].importance
                                  * Ln1p(entries[j].access_count)
              /\ \A j \in 1..Len(entries) :
                    (entries[j].importance = ev.importance
                        /\ entries[j].access_count = ev.access_count)
                    => ev.last_access_ms <= entries[j].last_access_ms
              /\ ~\E j \in 1..Len(entries) :
                    /\ entries[j].last_access_ms < ev.last_access_ms
                    /\ entries[j].importance < ev.importance
                    /\ entries[j].access_count < ev.access_count]_vars

\* C32: import_q_table sets the Q-value of the pair named by every well-formed
\* key of its input (a key with exactly one '|') to the key's value, skips the
\* other keys whatever else the input holds, leaves every other Q-table entry
\* as it was, adds no other entry, and leaves the eligibility-trace table
\* unchanged.
C32_ImportFrame ==
    [][(td_ret'.op = "import_q_table" /\ td_steps' = td_steps + 1) =>
          \E data \in {td_ret'.data} :
             \E named \in {{<<SubSeq(key, 1, FirstSep(key) - 1),
                              SubSeq(key, FirstSep(key) + 1, Len(key))>> :
                               key \in {k \in DOMAIN data :
                                  Cardinality({i \in 1..Len(k) : k[i] = "|"}) = 1}}} :
                /\ \A key \in DOMAIN data :
                      Cardinality({i \in 1..Len(key) : key[i] = "|"}) = 1
                      => /\ <<SubSeq(key, 1, FirstSep(key) - 1),
                              SubSeq(key, FirstSep(key) + 1, Len(key))>> \in DOMAIN q_table'
                         /\ q_table'[<<SubSeq(key, 1, FirstSep(key) - 1),
                                       SubSeq(key, FirstSep(key) + 1, Len(key))>>] = data[key]
                /\ \A p \in DOMAIN q_table' \ named :
                      p \in DOMAIN q_table /\ q_table'[p] = q_table[p]
                /\ \A p \in DOMAIN q_table \ named : p \in DOMAIN q_table'
                /\ eligibility_traces' = eligibility_traces]_vars

\* C33: with lambda = 0 or gamma = 0 every update changes exactly one entry of
\* the Q-table, that of (state, action), reports states_updated = 1 and
\* returns with an empty eligibility-trace table.
C33_OneStepChangesOneValue ==
    [][(td_ret'.op = "update" /\ td_steps' = td_steps + 1
        /\ (hyper.lambda = Zero \/ hyper.gamma = Zero)) =>
          /\ {k \in DOMAIN q_table \cup DOMAIN q_table' :
                \/ (k \in DOMAIN q_table) # (k \in DOMAIN q_table')
                \/ q_table[k] # q_table'[k]} = {td_ret'.key}
          /\ td_ret'.states_updated = 1
          /\ eligibility_traces' = <<>>]_vars

\* C33, amended: with lambda = 0 or gamma = 0 every update changes no Q-value
\* but that of (state, action), to which it adds alpha * td_error (so that
\* value changes unless alpha * td_error = 0), reports states_updated = 1 and
\* returns with an empty eligibility-trace table.
C33_OneStepTD ==
    [][(td_ret'.op = "update" /\ td_steps' = td_steps + 1
        /\ (hyper.lambda = Zero \/ hyper.gamma = Zero)) =>
          \E key \in {td_ret'.key} :
             /\ \A k \in (DOMAIN q_table \cup DOMAIN q_table') \ {key} :
                   k \in DOMAIN q_table /\ k \in DOMAIN q_table'
                      /\ q_table'[k] = q_table[k]
             /\ key \in DOMAIN q_table'
             /\ q_table'[key] = FAdd(IF key \in DOMAIN q_table THEN q_table[key] ELSE Zero,
                                     FMul(hyper.alpha, td_ret'.td_error))
             /\ td_ret'.states_updated = 1
             /\ eligibility_traces' = <<>>]_vars

\* a learner with gamma = 1 and lambda = 0 whose table holds a second pair has
\* been updated: the pair's value moved and one state was reported
C33_Witness ==
    /\ td_ret.op = "update"
    /\ hyper.lambda = Zero /\ hyper.gamma = One /\ hyper.alpha # Zero
    /\ Cardinality(DOMAIN q_table) >= 2
    /\ td_ret.td_error # Zero
    /\ td_ret.states_updated = 1
    /\ eligibility_traces = <<>>

\* C34: after any sequence of calls, when remove(id) returns true the store
\* holds one entry fewer, the other entries are unchanged and in their order,
\* and get_by_id(id) returns none; it returns true whenever an entry has that
\* id, and when none has, it returns false and changes nothing.
C34_RemoveRemovesId ==
    [][(wm_ret'.op = "remove" /\ wm_ms' = wm_ms) =>
          \E id \in {wm_ret'.id} :
             /\ wm_ret'.out = (\E i \in 1..Len(entries) : entries[i].id = id)
             /\ wm_ret'.out =>
                   /\ GetById(entries', id) = <<>>
                   /\ Len(entries') = Len(entries) - 1
                   /\ \E i \in 1..Len(entries) :
                         /\ entries[i].id = id
                         /\ entries' = [j \in 1..(Len(entries) - 1) |->
                                          IF j < i THEN entries[j] ELSE entries[j + 1]]
             /\ ~wm_ret'.out => entries' = entries
             /\ UNCHANGED <<max_capacity, wm_status>>]_vars

C36_CalculateScoreAgrees ==
    (/\ last.op = "calculate_score"
     /\ last.before.op = "match"
     /\ last.before.query = last.query
     /\ last.before.top_k >= Len(patterns))
    => /\ \A i \in 1..Len(last.before.out) :
             last.before.out[i].pattern_id = last.pattern_id
                => last.before.out[i].score = last.out
       /\ (last.out = 0)
             = (~\E i \in 1..Len(last.before.out) :
                    last.before.out[i].pattern_id = last.pattern_id)

C38_DetectClustersTerminates ==
    /\ [][(ce_pc = "expand" /\ ce_pc' = "expand" /\ seeds # <<>>) =>
             /\ visited'[seeds[Len(seeds)] + 1]
             /\ \A j \in 1..Len(visited) : visited[j] => visited'[j]
             /\ Len(seeds') >= Len(seeds) => ~visited[seeds[Len(seeds)] + 1]
             /\ visited[seeds[Len(seeds)] + 1] => Len(seeds') = Len(seeds) - 1]_vars
    /\ []<>(ce_pc \in {"idle", "done", "panicked"})

\* in the middle of an expansion the seeds hold a point for the second time,
\* already visited
C38_Witness ==
    /\ ce_pc = "expand"
    /\ Len(seeds) >= 2
    /\ visited[seeds[Len(seeds)] + 1]
    /\ \E k \in 1..(Len(seeds) - 1) : seeds[k] = seeds[Len(seeds)]

(***************************************************************************)
(* Specifications                                                          *)
(***************************************************************************)
\* one KnowledgeEngine used by one caller
CEIdle ==
    /\ min_points = 0
    /\ epsilon = 0
    /\ embeddings = <<>>
    /\ ce_pc = "idle"
    /\ ce_i = 0
    /\ visited = <<>>
    /\ cluster_assignments = <<>>
    /\ clusters = <<>>
    /\ seeds = <<>>
    /\ cluster_points = <<>>
    /\ ce_prev = <<>>

KEAlone == KEInit /\ WMIdle /\ TDIdle /\ CEIdle /\ VecInit

\* one caller, every top_k
SpecKE == KEAlone /\ [][KENextFor({1}, 0..MaxTopK, Queries)]_vars

\* one WorkingMemory
WMAlone == WMInit /\ KEIdle /\ TDIdle /\ CEIdle /\ VecInit

SpecWM == WMAlone /\ [][WMNextFor(EntryCatalog)]_vars

\* one WorkingMemory fed with the entries of EvictCatalog
SpecWMEvict == WMAlone /\ [][WMNextFor(EvictCatalog)]_vars

\* one KnowledgeEngine shared by the callers of Threads
SpecKEConc == KEAlone /\ [][KENextFor(Threads, ConcTopKs, Queries)]_vars

\* one KnowledgeEngine shared by the callers of Threads under a scheduler
\* that lets every caller proceed which can proceed again and again: a caller
\* in a call is not suspended for ever, a caller waiting in lock() gets the
\* mutex at one of the times it is free, and no caller stays for ever in the
\* scan, the scoring and the sort, which are loops over finite lists
SpecKEFair ==
    KEAlone
       /\ [][\/ KENextFor(Threads, ConcTopKs, {q \in Queries : q.error_codes = <<>>})
             \/ \E t \in Threads :
                   CacheStatsCall(t) /\ UNCHANGED <<wmVars, tdVars, ceVars, vecVars>>
             \/ \E t \in Threads :
                   Lock(t, "stats", "stats_locked")
                      /\ UNCHANGED <<wmVars, tdVars, ceVars, vecVars>>
             \/ \E t \in Threads :
                   CacheStatsBody(t) /\ UNCHANGED <<wmVars, tdVars, ceVars, vecVars>>]_vars
       /\ \A t \in Threads : SF_vars(KEProceed(t)) /\ []<>(pc[t] # "score")

\* one KnowledgeEngine built from the scenario patterns, one caller
KEScoreAlone == KEScoreInit /\ WMIdle /\ TDIdle /\ CEIdle /\ VecInit

\* top_k small or usize::MAX, the queries of the scoring specification
SpecKEScore ==
    KEScoreAlone /\ [][KENextFor({1}, 0..MaxTopK \cup {UsizeMax}, ScoreQueries)]_vars

\* calculate_score called for the query of the match_patterns call that
\* returned last, top_k being the number of patterns
SpecKECalc ==
    KEScoreAlone
       /\ [][\/ KENextFor({1}, {Len(patterns)}, ScoreQueries)
             \/ \E idx \in 1..Len(patterns) :
                   /\ last.op = "match"
                   /\ CalculateScoreCall(1, last.query, idx)
                   /\ UNCHANGED <<wmVars, tdVars, ceVars, vecVars>>]_vars

\* one TDLearner
TDAlone == TDInit /\ KEIdle /\ WMIdle /\ CEIdle /\ VecInit

SpecTD == TDAlone /\ [][TDNext]_vars

\* one TDLearner, updated and reset only
SpecTDTrace == TDAlone /\ [][TDTraceNext]_vars

\* one ClusterEngine
CEAlone == CEInit /\ KEIdle /\ WMIdle /\ TDIdle /\ VecInit

SpecCE == CEAlone /\ [][CENext]_vars

\* one ClusterEngine whose caller is not suspended for ever inside a call:
\* the for loop and the while loop go on while they have a step to take
SpecCEFair ==
    CEAlone /\ [][CENext]_vars
       /\ WF_vars((NextPoint \/ PopSeed \/ PushCluster \/ ReturnClusters)
                     /\ UNCHANGED <<keVars, wmVars, tdVars, vecVars>>)

\* one KnowledgeEngine whose mutex may get poisoned
SpecKEPoison == KEAlone /\ [][KEPoisonNext]_vars

\* cosine_similarity on every pair of the vectors of VecInputs
VecAlone == VecInit /\ KEIdle /\ WMIdle /\ TDIdle /\ CEIdle
SpecVec ==
    VecAlone
       /\ [][\E a \in VecInputs, b \in VecInputs :
                CosineSimilarityCall(a, b) /\ UNCHANGED <<keVars, wmVars, tdVars, ceVars>>]_vars

====
